---- MODULE Spec2Model ----
(***************************************************************************)
(* Query interpretation pipeline of wlaunch-rs: Mode::from_query           *)
(* (src/ui/window.rs), Calculator (src/features/calculator.rs) and         *)
(* Converter (src/features/converter.rs).                                  *)
(*                                                                         *)
(* A Rust string is a sequence of characters; a character is a one-letter  *)
(* TLA+ string, or "U+XXXX" for a character outside ASCII.  An f64 is a    *)
(* record [k, s, m, e]: NaN, an infinity, a signed zero, or the finite     *)
(* value (-1)^s * m * 2^e with m an odd natural number of at most 53 bits, *)
(* kept as a little-endian sequence of 13-bit limbs because TLC's integers *)
(* are 32 bits wide.  Arithmetic rounds to nearest, ties to even, as IEEE  *)
(* 754 binary64 does.                                                      *)
(***************************************************************************)
EXTENDS Integers, Sequences, FiniteSets, TLC

VARIABLES
    search_query,     \* WLaunch.search_query
    mode,             \* WLaunch.mode
    mode_query,       \* WLaunch.mode_query
    all_items,        \* WLaunch.all_items
    filtered_items,   \* WLaunch.filtered_items
    selected_index,   \* WLaunch.selected_index
    indexing,         \* TRUE while the indexing task of WLaunch::new is running
    panicked,         \* TRUE once a handler has panicked (the process is gone)
    route_query,      \* classifier harness: the argument of Mode::from_query
    route_result,     \* classifier harness: what Mode::from_query returned
    calc_ast,         \* evaluator harness: the tree the expression was written from
    calc_expr,        \* evaluator harness: the argument of Calculator::evaluate
    calc_result,      \* evaluator harness: what Calculator::evaluate returned
    conv_args,        \* converter harness: the arguments of Converter::convert
    conv_result,      \* converter harness: what Converter::convert returned
    score_args,       \* scoring harness: two items and the query they are scored for
    score_result,     \* scoring harness: what Item::fuzzy_score returned for each
    parse_parts,      \* extraction harness: the pieces the query is written from
    parse_query,      \* extraction harness: the argument of Converter::parse_conversion
    parse_result,     \* extraction harness: what Converter::parse_conversion returned
    clock,            \* Local::now(), in seconds
    timer_manager,    \* the TimerManager
    stopwatch_ran,    \* timer harness: for how long the stopwatch has been running since its start
    clipboard_manager,\* the ClipboardManager
    daemon            \* the locals of run_clipboard_daemon

launcherVars == <<search_query, mode, mode_query, all_items, filtered_items,
                  selected_index, indexing, panicked>>
routeVars == <<route_query, route_result>>
calcVars == <<calc_ast, calc_expr, calc_result>>
convVars == <<conv_args, conv_result>>
scoreVars == <<score_args, score_result>>
parseVars == <<parse_parts, parse_query, parse_result>>
timerVars == <<clock, timer_manager, stopwatch_ran>>
clipVars == <<clipboard_manager, daemon>>
vars == <<launcherVars, routeVars, calcVars, convVars, scoreVars,
         parseVars,
         timerVars,
         clipVars>>

-----------------------------------------------------------------------------
(* Natural numbers wider than 32 bits: little-endian limbs, no leading     *)
(* zero limb, <<>> is 0.                                                   *)

\* F applied to e: the value e is named once and used by F wherever needed
With(e, F(_)) == F(e)
With2(e1, e2, F(_, _)) == F(e1, e2)

\* the element of a one-element set: Only({F(x) : x \in {e}}) is F(e) with e
\* computed before F is entered
Only(S) == CHOOSE x \in S : TRUE

LimbBits == 12 + 1
LimbBase == 2 ^ LimbBits

Min(a, b) == IF a <= b THEN a ELSE b
Max(a, b) == IF a >= b THEN a ELSE b

Limb(a, i) == IF i \in DOMAIN a THEN a[i] ELSE 0

Zeros(n) == [i \in 1..n |-> 0]

\* a without its leading zero limbs
BNorm(a) ==
    SubSeq(a, 1, Cardinality({i \in DOMAIN a : \E j \in i..Len(a) : a[j] # 0}))

\* n < 2^31 as limbs
BFromNat(n) == BNorm([i \in 1..3 |-> (n \div (LimbBase ^ (i - 1))) % LimbBase])

\* the value of a as a TLC integer, for a < 2^31
BToNat(a) == Limb(a, 1) + LimbBase * Limb(a, 2) + LimbBase * LimbBase * Limb(a, 3)

\* -1, 0 or 1 as a < b, a = b, a > b (both without leading zero limbs)
BCmp(a, b) ==
    IF Len(a) # Len(b) THEN (IF Len(a) < Len(b) THEN -1 ELSE 1)
    ELSE IF a = b THEN 0
    ELSE IF \E i \in DOMAIN a : a[i] < b[i] /\ \A j \in (i + 1)..Len(a) : a[j] = b[j]
         THEN -1
    ELSE 1

\* limb i of s takes a carry: a limb below it overflows and every limb between
\* the two is full
CarryInto(s, i) ==
    \E j \in 1..(i - 1) :
        s[j] >= LimbBase /\ \A k \in (j + 1)..(i - 1) : s[k] = LimbBase - 1

\* the number whose limb-wise sums, each below 2 * LimbBase - 1, are s
Carried(s) ==
    BNorm([i \in DOMAIN s |->
              (s[i] + (IF CarryInto(s, i) THEN 1 ELSE 0)) % LimbBase])

BAdd(a, b) ==
    Carried([i \in 1..(Max(Len(a), Len(b)) + 1) |-> Limb(a, i) + Limb(b, i)])

\* limb i of d lends: a limb below it is negative and every limb between the
\* two is zero
BorrowInto(d, i) ==
    \E j \in 1..(i - 1) : d[j] < 0 /\ \A k \in (j + 1)..(i - 1) : d[k] = 0

\* the number whose limb-wise differences are d
Borrowed(d) ==
    BNorm([i \in DOMAIN d |->
              (d[i] - (IF BorrowInto(d, i) THEN 1 ELSE 0)) % LimbBase])

\* a - b for a >= b
BSub(a, b) == Borrowed([i \in DOMAIN a |-> a[i] - Limb(b, i)])

\* a * d for a limb-sized d (0 <= d < LimbBase): the low halves of the limb
\* products, plus their high halves one limb up
BMulLimb(a, d) ==
    BAdd([i \in DOMAIN a |-> (a[i] * d) % LimbBase],
         <<0>> \o [i \in DOMAIN a |-> (a[i] * d) \div LimbBase])

RECURSIVE BMulFrom(_, _, _, _)
\* a times the limbs lo..hi of b, by halves
BMulFrom(a, b, lo, hi) ==
    IF lo > hi THEN <<>>
    ELSE IF lo = hi THEN BMulLimb(a, b[lo])
    ELSE BAdd(BMulFrom(a, b, lo, (lo + hi) \div 2),
              Zeros((lo + hi) \div 2 + 1 - lo)
              \o BMulFrom(a, b, (lo + hi) \div 2 + 1, hi))

BMul(a, b) == BNorm(BMulFrom(a, b, 1, Len(b)))

\* a * 2^n
BShl(a, n) ==
    IF a = <<>> THEN <<>>
    ELSE Zeros(n \div LimbBits) \o BMulLimb(a, 2 ^ (n % LimbBits))

\* a \div 2^n
BShr(a, n) ==
    BNorm([i \in 1..(Len(a) - n \div LimbBits) |->
              (Limb(a, i + n \div LimbBits) \div (2 ^ (n % LimbBits)))
              + (Limb(a, i + 1 + n \div LimbBits) % (2 ^ (n % LimbBits)))
                * (2 ^ (LimbBits - (n % LimbBits)))])

\* the number of bits of a limb
NatBitLen(n) == Cardinality({k \in 0..(LimbBits - 1) : 2 ^ k <= n})

BBitLen(a) ==
    IF a = <<>> THEN 0 ELSE (Len(a) - 1) * LimbBits + NatBitLen(a[Len(a)])

\* bit i of a (bit 0 is the least significant)
BTestBit(a, i) == ((Limb(a, i \div LimbBits + 1) \div (2 ^ (i % LimbBits))) % 2) = 1

\* a % 2^n = 0
BLowZero(a, n) ==
    /\ \A i \in 1..Min(n \div LimbBits, Len(a)) : a[i] = 0
    /\ (Limb(a, n \div LimbBits + 1) % (2 ^ (n % LimbBits))) = 0

\* the number of trailing zero bits of a limb n > 0
NatTz(n) == Cardinality({k \in 1..LimbBits : n % (2 ^ k) = 0})

\* the number of trailing zero bits of a > 0
BTz(a) ==
    LET z == Cardinality({i \in DOMAIN a : \A j \in 1..i : a[j] = 0})
    IN  z * LimbBits + NatTz(a[z + 1])

\* one digit of a long division: r \div d for r < d * LimbBase, where d's top
\* limb is at least LimbBase / 2, so that the estimate from the top limbs is
\* the digit or exceeds it by at most 2
QDigit(r, d) ==
    LET est == Min((Limb(r, Len(d) + 1) * LimbBase + Limb(r, Len(d))) \div d[Len(d)],
                   LimbBase - 1)
    IN  IF BCmp(BMulLimb(d, est), r) <= 0 THEN est
        ELSE IF BCmp(BMulLimb(d, est - 1), r) <= 0 THEN est - 1
        ELSE est - 2

RECURSIVE BDivFrom(_, _, _, _, _)
\* long division, one limb of x a step from limb i down, r1 being what is
\* left of the limbs above it with limb i brought down: <<quotient, remainder>>
BDivFrom(x, d, i, r1, q) ==
    Only({Only({IF i = 1 THEN <<<<qd>> \o q, r>>
                ELSE BDivFrom(x, d, i - 1, BNorm(<<x[i - 1]>> \o r), <<qd>> \o q) :
                    r \in {BSub(r1, BMulLimb(d, qd))}}) :
              qd \in {QDigit(r1, d)}})

\* <<x \div d, x % d>> for d > 0 whose top limb is at least LimbBase / 2
BDivNormal(x, d) ==
    IF Len(x) < Len(d) THEN <<<<>>, x>>
    ELSE BDivFrom(x, d, Len(x) - Len(d) + 1,
                  BNorm(SubSeq(x, Len(x) - Len(d) + 1, Len(x))), <<>>)

\* <<x \div d, x % d>> for d > 0: both are shifted to bring d's top bit to
\* the top of its limb, and the remainder is shifted back
BDivMod(x, d) ==
    LET sh == (LimbBits - (BBitLen(d) % LimbBits)) % LimbBits
    IN  Only({<<BNorm(qr[1]), BShr(qr[2], sh)>> :
                  qr \in {BDivNormal(BShl(x, sh), BShl(d, sh))}})

BMod(x, d) == BDivMod(x, d)[2]

-----------------------------------------------------------------------------
(* f64.  [k |-> "nan"], [k |-> "inf", s], [k |-> "zero", s] and            *)
(* [k |-> "fin", s, m, e] are the IEEE 754 binary64 values; the sign s is  *)
(* 0 or 1.  [k |-> "opaque"] stands for a finite non-zero result whose     *)
(* bits are not computed here: a transcendental function off its exact     *)
(* points, a subnormal, a power with a fractional or very large exponent.  *)
(* Every operation on it gives it back, so nothing is concluded from it.   *)

MantBits == 53      \* f64::MANTISSA_DIGITS
MaxExp == 1024      \* f64::MAX_EXP: every finite f64 is below 2^1024
MinExp == -1021     \* f64::MIN_EXP: every normal f64 is at least 2^(-1022)

F64Nan == [k |-> "nan", s |-> 0, m |-> <<>>, e |-> 0]
F64Opaque == [k |-> "opaque", s |-> 0, m |-> <<>>, e |-> 0]
F64Inf(s) == [k |-> "inf", s |-> s, m |-> <<>>, e |-> 0]
F64Zero(s) == [k |-> "zero", s |-> s, m |-> <<>>, e |-> 0]
F64Fin(s, m, e) == [k |-> "fin", s |-> s, m |-> m, e |-> e]

Xor(s, t) == (s + t) % 2

\* the f64 that is exactly (-1)^s * M * 2^e, for M of at most 53 bits
Canon(s, M, e) ==
    IF M = <<>> THEN F64Zero(s)
    ELSE LET top == BBitLen(M) + e
             tz == BTz(M)
         IN  IF top > MaxExp THEN F64Inf(s)
             ELSE IF top < MinExp THEN F64Opaque
             ELSE F64Fin(s, BShr(M, tz), e + tz)

\* round to nearest, ties to even: the f64 nearest to (-1)^s * (M + f) * 2^e,
\* where 0 <= f < 1 and f > 0 exactly if sticky (then M has 55 bits or more)
Round(s, M, e, sticky) ==
    LET sh == Max(0, BBitLen(M) - MantBits)
        kept == BShr(M, sh)
        half == sh > 0 /\ BTestBit(M, sh - 1)
        exactHalf == BLowZero(M, sh - 1) /\ ~sticky
    IN  IF sh = 0 /\ sticky THEN F64Opaque
        ELSE Canon(s,
                   IF half /\ (~exactHalf \/ BTestBit(kept, 0))
                   THEN BAdd(kept, <<1>>) ELSE kept,
                   e + sh)

\* the f64 nearest to (A * 2^ea) / (D * 2^ed), for A > 0 and D > 0: the
\* quotient is taken to 55 bits or more, and the remainder says whether it is
\* exact
DivRound(s, A, ea, D, ed) ==
    LET sh == IF D = <<1>> THEN 0
              ELSE Max(0, BBitLen(D) - BBitLen(A) + MantBits + 2)
    IN  Only({Round(s, qr[1], ea - sh - ed, qr[2] # <<>>) :
                  qr \in {IF D = <<1>> THEN <<A, <<>>>>
                          ELSE BDivMod(BShl(A, sh), D)}})

F64FromNat(n) == Canon(0, BFromNat(n), 0)

BSquare(h) == BMul(h, h)

RECURSIVE BPow(_, _)
\* m^n by squaring
BPow(m, n) ==
    IF n = 0 THEN <<1>>
    ELSE IF n % 2 = 1 THEN BMul(BSquare(BPow(m, n \div 2)), m)
    ELSE BSquare(BPow(m, n \div 2))

FNeg(a) == IF a.k \in {"nan", "opaque"} THEN a ELSE [a EXCEPT !.s = 1 - a.s]
FAbs(a) == IF a.k \in {"nan", "opaque"} THEN a ELSE [a EXCEPT !.s = 0]

AddFin(a, b) ==
    LET emin == Min(a.e, b.e)
        A == BShl(a.m, a.e - emin)
        B == BShl(b.m, b.e - emin)
        c == BCmp(A, B)
    IN  IF a.e - emin > 4 * MantBits THEN a
        ELSE IF b.e - emin > 4 * MantBits THEN b
        ELSE IF a.s # b.s /\ c = 0 THEN F64Zero(0)
        ELSE Round(IF c >= 0 THEN a.s ELSE b.s,
                   IF a.s = b.s THEN BAdd(A, B)
                   ELSE IF c > 0 THEN BSub(A, B)
                   ELSE BSub(B, A),
                   emin, FALSE)

\* a + b
FAdd(a, b) ==
    IF a.k = "nan" \/ b.k = "nan" THEN F64Nan
    ELSE IF a.k = "inf" /\ b.k = "inf" THEN (IF a.s = b.s THEN a ELSE F64Nan)
    ELSE IF a.k = "inf" THEN a
    ELSE IF b.k = "inf" THEN b
    ELSE IF a.k = "opaque" \/ b.k = "opaque" THEN F64Opaque
    ELSE IF a.k = "zero" /\ b.k = "zero"
         THEN F64Zero(IF a.s = 1 /\ b.s = 1 THEN 1 ELSE 0)
    ELSE IF a.k = "zero" THEN b
    ELSE IF b.k = "zero" THEN a
    ELSE AddFin(a, b)

\* a - b
FSub(a, b) == FAdd(a, FNeg(b))

\* a * b
FMul(a, b) ==
    IF a.k = "nan" \/ b.k = "nan" THEN F64Nan
    ELSE IF (a.k = "inf" /\ b.k = "zero") \/ (a.k = "zero" /\ b.k = "inf")
         THEN F64Nan
    ELSE IF a.k = "opaque" \/ b.k = "opaque" THEN F64Opaque
    ELSE IF a.k = "inf" \/ b.k = "inf" THEN F64Inf(Xor(a.s, b.s))
    ELSE IF a.k = "zero" \/ b.k = "zero" THEN F64Zero(Xor(a.s, b.s))
    ELSE Round(Xor(a.s, b.s), BMul(a.m, b.m), a.e + b.e, FALSE)

\* a / b
FDiv(a, b) ==
    IF a.k = "nan" \/ b.k = "nan" THEN F64Nan
    ELSE IF (a.k = "inf" /\ b.k = "inf") \/ (a.k = "zero" /\ b.k = "zero")
         THEN F64Nan
    ELSE IF a.k = "opaque" \/ b.k = "opaque" THEN F64Opaque
    ELSE IF a.k = "inf" \/ b.k = "zero" THEN F64Inf(Xor(a.s, b.s))
    ELSE IF a.k = "zero" \/ b.k = "inf" THEN F64Zero(Xor(a.s, b.s))
    ELSE DivRound(Xor(a.s, b.s), a.m, a.e, b.m, b.e)

\* a % b: the remainder of the division truncated toward zero, with a's sign
FRem(a, b) ==
    IF a.k = "nan" \/ b.k = "nan" \/ a.k = "inf" \/ b.k = "zero" THEN F64Nan
    ELSE IF a.k = "opaque" \/ b.k = "opaque" THEN F64Opaque
    ELSE IF b.k = "inf" \/ a.k = "zero" THEN a
    ELSE IF a.e - b.e > 4 * MantBits \/ b.e - a.e > 4 * MantBits THEN F64Opaque
    ELSE Canon(a.s,
               BMod(BShl(a.m, a.e - Min(a.e, b.e)), BShl(b.m, b.e - Min(a.e, b.e))),
               Min(a.e, b.e))

\* a == 0.0
FIsZero(a) == a.k = "zero"

IsInteger(a) == a.k = "zero" \/ (a.k = "fin" /\ a.e >= 0)
IsOddInteger(a) == a.k = "fin" /\ a.e = 0
\* |a| > 1
MagnitudeAboveOne(a) ==
    a.k = "inf" \/ (a.k = "fin" /\ BBitLen(a.m) + a.e > 1)
IsOne(a) == a = F64Fin(0, <<1>>, 0)
F64One == F64Fin(0, <<1>>, 0)

\* a finite, non-zero base to a non-zero integer exponent y.  With n = |y|,
\* 2^(top-1) <= |a| < 2^top gives 2^((top-1)*n) <= |a|^n < 2^(top*n): the
\* power is computed exactly where that does not already decide the result
\* and the exact power stays below PowBits bits.
PowBits == MaxExp + 2 * MantBits
PowInt(a, y) ==
    LET rs == IF IsOddInteger(y) THEN a.s ELSE 0
        top == BBitLen(a.m) + a.e
        huge == BBitLen(y.m) + y.e > 10
        n == IF huge THEN 0 ELSE BToNat(BShl(y.m, y.e))
        grows == y.s = 0
    IN  IF a.m = <<1>> /\ a.e = 0 THEN F64Fin(rs, <<1>>, 0)
        ELSE IF huge
             THEN (IF top >= 2 THEN (IF grows THEN F64Inf(rs) ELSE F64Zero(rs))
                   ELSE IF top <= -1 THEN (IF grows THEN F64Zero(rs) ELSE F64Inf(rs))
                   ELSE F64Opaque)
        ELSE IF (top - 1) * n >= PowBits
             THEN (IF grows THEN F64Inf(rs) ELSE F64Zero(rs))
        ELSE IF top * n <= -PowBits
             THEN (IF grows THEN F64Zero(rs) ELSE F64Inf(rs))
        ELSE IF BBitLen(a.m) * n > PowBits THEN F64Opaque
        ELSE IF grows THEN Round(rs, BPow(a.m, n), a.e * n, FALSE)
        ELSE DivRound(rs, <<1>>, 0, BPow(a.m, n), a.e * n)

\* f64::powf, taken as correctly rounded
FPow(a, y) ==
    IF y.k = "zero" \/ IsOne(a) THEN F64One
    ELSE IF a.k = "nan" \/ y.k = "nan" THEN F64Nan
    ELSE IF a.k = "opaque" \/ y.k = "opaque" THEN F64Opaque
    ELSE IF y.k = "inf"
         THEN (IF a = FNeg(F64One) THEN F64One
               ELSE IF MagnitudeAboveOne(a) = (y.s = 0) THEN F64Inf(0)
               ELSE F64Zero(0))
    ELSE IF a.k = "zero"
         THEN (IF y.s = 1 THEN F64Inf(IF IsOddInteger(y) THEN a.s ELSE 0)
               ELSE F64Zero(IF IsOddInteger(y) THEN a.s ELSE 0))
    ELSE IF a.k = "inf"
         THEN (IF y.s = 1 THEN F64Zero(IF IsOddInteger(y) THEN a.s ELSE 0)
               ELSE F64Inf(IF IsOddInteger(y) THEN a.s ELSE 0))
    ELSE IF ~IsInteger(y) THEN (IF a.s = 1 THEN F64Nan ELSE F64Opaque)
    ELSE PowInt(a, y)

\* the integer part of |a| for a finite non-integer a
IntPart(a) == BShr(a.m, -a.e)

\* a finite non-integer a to the integer next to it, away from zero if away
ToIntegral(a, away) ==
    Canon(a.s, IF away THEN BAdd(IntPart(a), <<1>>) ELSE IntPart(a), 0)

FFloor(a) == IF a.k # "fin" \/ a.e >= 0 THEN a ELSE ToIntegral(a, a.s = 1)

FCeil(a) == IF a.k # "fin" \/ a.e >= 0 THEN a ELSE ToIntegral(a, a.s = 0)

\* f64::round: half away from zero
FRound(a) ==
    IF a.k # "fin" \/ a.e >= 0 THEN a
    ELSE ToIntegral(a, BTestBit(a.m, (-a.e) - 1))

\* the integer part of the square root of n
NatSqrt(n) == CHOOSE r \in 0..n : r * r <= n /\ n < (r + 1) * (r + 1)

\* f64::sqrt: exact on the squares of small integers and their quarters
FSqrt(a) ==
    IF a.k \in {"nan", "opaque", "zero"} THEN a
    ELSE IF a.s = 1 THEN F64Nan
    ELSE IF a.k = "inf" THEN a
    ELSE IF a.e % 2 # 0 \/ BBitLen(a.m) > LimbBits THEN F64Opaque
    ELSE IF NatSqrt(BToNat(a.m)) * NatSqrt(BToNat(a.m)) = BToNat(a.m)
         THEN Canon(0, BFromNat(NatSqrt(BToNat(a.m))), a.e \div 2)
    ELSE F64Opaque

\* f64::sin and f64::tan: exact at zero only
FSinTan(a) ==
    IF a.k \in {"nan", "opaque", "zero"} THEN a
    ELSE IF a.k = "inf" THEN F64Nan
    ELSE F64Opaque

FCos(a) ==
    IF a.k \in {"nan", "opaque"} THEN a
    ELSE IF a.k = "zero" THEN F64One
    ELSE IF a.k = "inf" THEN F64Nan
    ELSE F64Opaque

F64Ten == F64Fin(0, <<5>>, 1)

\* f64::ln and f64::log10: exact at 1 (and log10 at 10)
FLog(a, atBase) ==
    IF a.k \in {"nan", "opaque"} THEN a
    ELSE IF a.k = "zero" THEN F64Inf(1)
    ELSE IF a.s = 1 THEN F64Nan
    ELSE IF a.k = "inf" THEN a
    ELSE IF IsOne(a) THEN F64Zero(0)
    ELSE IF atBase /\ a = F64Ten THEN F64One
    ELSE F64Opaque

\* neither NaN nor an infinity, as far as the value is computed
IsFinite(a) == a.k \in {"fin", "zero"}
NotFinite(a) == a.k \in {"nan", "inf"}

-----------------------------------------------------------------------------
(* char and str                                                            *)

UpperAscii == <<"A","B","C","D","E","F","G","H","I","J","K","L","M",
                "N","O","P","Q","R","S","T","U","V","W","X","Y","Z">>
LowerAscii == <<"a","b","c","d","e","f","g","h","i","j","k","l","m",
                "n","o","p","q","r","s","t","u","v","w","x","y","z">>
AsciiDigits == <<"0","1","2","3","4","5","6","7","8","9">>

Range(f) == {f[i] : i \in DOMAIN f}

\* characters outside ASCII, by the length of their UTF-8 encoding:
\* U+0130 is the dotted capital I, U+0307 the combining dot above, U+00D7 and
\* U+00F7 the multiplication and division signs, U+212A the Kelvin sign;
\* U+0E23, U+0E17 and U+0097 are the characters of the string literals at
\* calculator.rs:45-46
TwoByteChars == {"U+0130", "U+0307", "U+00D7", "U+00F7", "U+0097"}
ThreeByteChars == {"U+212A", "U+0E23", "U+0E17"}

\* char::len_utf8
len_utf8(c) == IF c \in ThreeByteChars THEN 3 ELSE IF c \in TwoByteChars THEN 2 ELSE 1

\* char::to_lowercase: one character may lower-case to two
char_to_lowercase(c) ==
    IF c \in Range(UpperAscii)
    THEN <<LowerAscii[CHOOSE i \in DOMAIN UpperAscii : UpperAscii[i] = c]>>
    ELSE IF c = "U+0130" THEN <<"i", "U+0307">>
    ELSE IF c = "U+212A" THEN <<"k">>
    ELSE <<c>>

\* char::is_whitespace
WhiteSpace == {" ", "\t"}
is_whitespace(c) == c \in WhiteSpace
\* char::is_ascii_digit
is_ascii_digit(c) == c \in Range(AsciiDigits)
\* char::is_alphabetic
is_alphabetic(c) ==
    c \in Range(UpperAscii) \cup Range(LowerAscii)
          \cup {"U+0130", "U+212A", "U+0E23", "U+0E17"}

RECURSIVE to_lowercase(_)
\* str::to_lowercase
to_lowercase(s) ==
    IF s = <<>> THEN <<>> ELSE char_to_lowercase(Head(s)) \o to_lowercase(Tail(s))

RECURSIVE trim_start(_)
\* str::trim_start
trim_start(s) ==
    IF s # <<>> /\ is_whitespace(Head(s)) THEN trim_start(Tail(s)) ELSE s

RECURSIVE trim_end(_)
trim_end(s) ==
    IF s # <<>> /\ is_whitespace(s[Len(s)])
    THEN trim_end(SubSeq(s, 1, Len(s) - 1)) ELSE s

\* str::trim
trim(s) == trim_end(trim_start(s))

\* str::starts_with
starts_with(s, p) == Len(s) >= Len(p) /\ SubSeq(s, 1, Len(p)) = p

\* str::contains
contains(s, p) == \E i \in 0..(Len(s) - Len(p)) : SubSeq(s, i + 1, i + Len(p)) = p

\* the number of characters of s before its first occurrence of the
\* character c; Len(s) when there is none
find_char(s, c) == Cardinality({i \in DOMAIN s : \A j \in 1..i : s[j] # c})

\* str::splitn(2, ' '): the text before the first space, and the text after it
\* if there is one
splitn2(s) ==
    With(find_char(s, " "),
         LAMBDA i : IF i = Len(s) THEN <<s>>
                    ELSE <<SubSeq(s, 1, i), SubSeq(s, i + 2, Len(s))>>)

RECURSIVE replace(_, _, _)
\* str::replace: every occurrence of the non-empty pattern, left to right
replace(s, from, to) ==
    IF s = <<>> THEN <<>>
    ELSE IF starts_with(s, from)
         THEN to \o replace(SubSeq(s, Len(from) + 1, Len(s)), from, to)
    ELSE <<Head(s)>> \o replace(Tail(s), from, to)

\* &s[n..] with n a byte offset: the slice, or a panic when n is not on a
\* character boundary of s
RECURSIVE slice_from(_, _)
slice_from(s, n) ==
    IF n = 0 THEN [ok |-> TRUE, str |-> s]
    ELSE IF s = <<>> \/ len_utf8(Head(s)) > n THEN [ok |-> FALSE, str |-> <<>>]
    ELSE slice_from(Tail(s), n - len_utf8(Head(s)))

RECURSIVE byte_len(_)
\* str::len
byte_len(s) == IF s = <<>> THEN 0 ELSE len_utf8(Head(s)) + byte_len(Tail(s))

-----------------------------------------------------------------------------
(* Mode::from_query (window.rs)                                            *)

Modes == {"Apps", "Windows", "Processes", "Wifi", "Bluetooth", "Audio",
          "Clipboard", "Notes", "Snippets", "Todos", "Ssh", "Docker", "Timer",
          "Emoji", "Files", "RecentFiles", "Bitwarden", "Ai", "WebSearch",
          "Calculator", "Converter"}

Routing(m, r) == [mode |-> m, residual |-> r]

\* is_math_expression that asks for a digit only
is_math_expression_digits(query) ==
    \E i \in DOMAIN query : is_ascii_digit(query[i])

\* fn is_math_expression
is_math_expression(query) ==
    LET has_operators == \E i \in DOMAIN query :
                             query[i] \in {"+", "-", "*", "/", "^", "%", "(", ")"}
        has_numbers == \E i \in DOMAIN query : is_ascii_digit(query[i])
    IN  has_operators /\ has_numbers

\* fn is_conversion
is_conversion(query) ==
    With(to_lowercase(query), LAMBDA query_lower :
         \/ contains(query_lower, <<" ","t","o"," ">>)
         \/ contains(query_lower, <<" ","i","n"," ">>))

\* from_query_default with the two heuristics tried in the other order
from_query_default_conversion_first(query) ==
    IF is_conversion(query) THEN Routing("Converter", query)
    ELSE IF is_math_expression(query) THEN Routing("Calculator", query)
    ELSE Routing("Apps", query)

\* the arm `_ =>` of the match in from_query
from_query_default(query) ==
    IF is_math_expression(query) THEN Routing("Calculator", query)
    ELSE IF is_conversion(query) THEN Routing("Converter", query)
    ELSE Routing("Apps", query)

\* the arms of the match in from_query that keep the remainder
prefix_arm(prefix) ==
    CASE prefix \in {<<"w">>, <<"w","i","n","d","o","w">>,
                     <<"w","i","n","d","o","w","s">>}
           -> "Windows"
      [] prefix \in {<<"p","s">>, <<"p","r","o","c">>, <<"p","r","o","c","e","s","s">>}
           -> "Processes"
      [] prefix \in {<<"w","i","f","i">>, <<"n","e","t","w","o","r","k">>}
           -> "Wifi"
      [] prefix \in {<<"b","t">>, <<"b","l","u","e","t","o","o","t","h">>}
           -> "Bluetooth"
      [] prefix \in {<<"v","o","l">>, <<"v","o","l","u","m","e">>,
                     <<"a","u","d","i","o">>}
           -> "Audio"
      [] prefix \in {<<"c","b">>, <<"c","l","i","p">>,
                     <<"c","l","i","p","b","o","a","r","d">>}
           -> "Clipboard"
      [] prefix \in {<<"n","o","t","e">>, <<"n","o","t","e","s">>}
           -> "Notes"
      [] prefix \in {<<"s","n","i","p">>, <<"s","n","i","p","p","e","t">>,
                     <<"s","n","i","p","p","e","t","s">>}
           -> "Snippets"
      [] prefix \in {<<"t","o","d","o">>, <<"t","o","d","o","s">>, <<"t","a","s","k">>,
                     <<"t","a","s","k","s">>}
           -> "Todos"
      [] prefix \in {<<"s","s","h">>}
           -> "Ssh"
      [] prefix \in {<<"d","o","c","k","e","r">>, <<"c","o","n","t","a","i","n","e","r">>,
                     <<"c","o","n","t","a","i","n","e","r","s">>}
           -> "Docker"
      [] prefix \in {<<"t","i","m","e","r">>, <<"s","t","o","p","w","a","t","c","h">>}
           -> "Timer"
      [] prefix \in {<<"e">>, <<"e","m","o","j","i">>}
           -> "Emoji"
      [] prefix \in {<<"f">>, <<"f","i","n","d">>, <<"f","i","l","e">>,
                     <<"f","i","l","e","s">>}
           -> "Files"
      [] prefix \in {<<"r">>, <<"r","e","c","e","n","t">>}
           -> "RecentFiles"
      [] prefix \in {<<"b","w">>, <<"b","i","t","w","a","r","d","e","n">>,
                     <<"p","a","s","s">>, <<"p","a","s","s","w","o","r","d">>}
           -> "Bitwarden"
      [] prefix \in {<<"a","s","k">>, <<"a","i">>, <<"?">>}
           -> "Ai"
      [] OTHER -> "none"

\* the arms that put the engine's name before the remainder
websearch_arm(prefix) ==
    CASE prefix \in {<<"g">>, <<"g","o","o","g","l","e">>} -> <<"g","o","o","g","l","e">>
      [] prefix \in {<<"g","h">>, <<"g","i","t","h","u","b">>} -> <<"g","i","t","h","u","b">>
      [] prefix \in {<<"y","t">>, <<"y","o","u","t","u","b","e">>} -> <<"y","o","u","t","u","b","e">>
      [] OTHER -> <<>>

\* from_query with the heuristics tried before the prefix table
from_query_heuristics_first(q) ==
    With(trim(q), LAMBDA query :
    With(splitn2(query), LAMBDA parts :
    With2(to_lowercase(parts[1]), IF Len(parts) > 1 THEN parts[2] ELSE <<>>,
          LAMBDA prefix, remainder :
    With2(prefix_arm(prefix), websearch_arm(prefix), LAMBDA arm, engine :
          IF is_math_expression(query) \/ is_conversion(query)
          THEN from_query_default(query)
          ELSE IF arm # "none" THEN Routing(arm, remainder)
          ELSE IF engine # <<>>
               THEN Routing("WebSearch", engine \o <<" ">> \o remainder)
          ELSE from_query_default(query)))))

\* fn from_query
from_query(q) ==
    With(trim(q), LAMBDA query :
    With(splitn2(query), LAMBDA parts :
    With2(to_lowercase(parts[1]), IF Len(parts) > 1 THEN parts[2] ELSE <<>>,
          LAMBDA prefix, remainder :
    With2(prefix_arm(prefix), websearch_arm(prefix), LAMBDA arm, engine :
          IF arm # "none" THEN Routing(arm, remainder)
          ELSE IF engine # <<>>
               THEN Routing("WebSearch", engine \o <<" ">> \o remainder)
          ELSE from_query_default(query)))))

-----------------------------------------------------------------------------
(* Calculator (calculator.rs)                                              *)

\* Option<(f64, &str)>: Some((val, rest)), None, or a panic unwinding
PSome(v, r) == [k |-> "some", val |-> v, rest |-> r]
PNone == [k |-> "none", val |-> F64Nan, rest |-> <<>>]
PPanic == [k |-> "panic", val |-> F64Nan, rest |-> <<>>]

\* std::f64::consts::PI = 0x1.921fb54442d18p+1, E = 0x1.5bf0a8b145769p+1
F64Pi == F64Fin(0, <<1443, 5188, 4058, 1608>>, -48)
F64E == F64Fin(0, <<5993, 6306, 674, 2942, 1>>, -51)

\* the value of one digit character
digit_value(c) == (CHOOSE i \in DOMAIN AsciiDigits : AsciiDigits[i] = c) - 1

RECURSIVE NatOfDigits(_)
\* the natural number written by at most 9 digit characters, by halves
NatOfDigits(s) ==
    IF s = <<>> THEN 0
    ELSE IF Len(s) = 1 THEN digit_value(s[1])
    ELSE NatOfDigits(SubSeq(s, 1, Len(s) \div 2)) * (10 ^ (Len(s) - Len(s) \div 2))
         + NatOfDigits(SubSeq(s, Len(s) \div 2 + 1, Len(s)))

RECURSIVE digits_to_big(_)
\* the natural number written by the digit characters of s, nine at a time
digits_to_big(s) ==
    IF Len(s) <= 9 THEN BFromNat(NatOfDigits(s))
    ELSE BAdd(BMul(digits_to_big(SubSeq(s, 1, Len(s) - 9)), BFromNat(10 ^ 9)),
              BFromNat(NatOfDigits(SubSeq(s, Len(s) - 8, Len(s)))))

\* the f64 nearest to n / 10^places
decimal(n, places) ==
    IF n = <<>> THEN F64Zero(0)
    ELSE IF places > 4 * MantBits THEN F64Opaque
    ELSE DivRound(0, n, 0, BPow(<<10>>, places), 0)

\* str::parse::<f64> on digits with at most one '.': the f64 nearest to the
\* decimal; no f64 for "." alone
parse_f64(num_str) ==
    LET dot == find_char(num_str, ".")
        digits == SubSeq(num_str, 1, dot) \o SubSeq(num_str, dot + 2, Len(num_str))
    IN  IF digits = <<>> THEN PNone
        ELSE PSome(decimal(digits_to_big(digits), Max(0, Len(num_str) - dot - 1)),
                   <<>>)

RECURSIVE number_end(_, _)
\* the loop of parse_number: how many characters the literal takes
number_end(s, has_dot) ==
    IF s = <<>> THEN 0
    ELSE IF is_ascii_digit(Head(s)) THEN 1 + number_end(Tail(s), has_dot)
    ELSE IF Head(s) = "." /\ ~has_dot THEN 1 + number_end(Tail(s), TRUE)
    ELSE 0

\* lines 206-207: num_str.parse().ok()? and the rest of the input
number_rest(num, rest) == IF num.k # "some" THEN PNone ELSE PSome(num.val, rest)

\* fn parse_number
parse_number(expr0) ==
    LET expr == trim_start(expr0)
        end == number_end(expr, FALSE)
    IN  IF end = 0 THEN PNone
        ELSE number_rest(parse_f64(SubSeq(expr, 1, end)),
                         SubSeq(expr, end + 1, Len(expr)))

\* the function table of parse_primary, in its order
FuncNames == <<<<"s","q","r","t">>,
               <<"s","i","n">>,
               <<"c","o","s">>,
               <<"t","a","n">>,
               <<"l","o","g">>,
               <<"l","n">>,
               <<"a","b","s">>,
               <<"f","l","o","o","r">>,
               <<"c","e","i","l">>,
               <<"r","o","u","n","d">>>>

apply_func(i, x) ==
    CASE i = 1 -> FSqrt(x)
      [] i = 2 -> FSinTan(x)
      [] i = 3 -> FCos(x)
      [] i = 4 -> FSinTan(x)
      [] i = 5 -> FLog(x, TRUE)
      [] i = 6 -> FLog(x, FALSE)
      [] i = 7 -> FAbs(x)
      [] i = 8 -> FFloor(x)
      [] i = 9 -> FCeil(x)
      [] i = 10 -> FRound(x)

\* lines 93-96: the right operand of '/' is checked before the division
\* checked_div without the test of lines 93-95
unchecked_div(left, right) == PSome(FDiv(left, right), <<>>)

checked_div(left, right) ==
    IF FIsZero(right) THEN PNone ELSE PSome(FDiv(left, right), <<>>)

\* one step of the loop of parse_multiplicative: left op right, where '/'
\* gives up on a zero right operand
apply_multiplicative(op, left, right) ==
    IF op = "*" THEN PSome(FMul(left, right), <<>>)
    ELSE IF op = "/" THEN checked_div(left, right)
    ELSE PSome(FRem(left, right), <<>>)

\* the loop of parse_primary has not returned: on to the next entry
PNext == [k |-> "next", val |-> F64Nan, rest |-> <<>>]

RECURSIVE parse_additive(_), additive_loop(_, _), parse_multiplicative(_),
          multiplicative_loop(_, _), parse_power(_), parse_unary(_),
          parse_primary(_), func_loop(_), func_entry(_, _)

\* fn parse_additive
parse_additive(expr) ==
    With(parse_multiplicative(expr), LAMBDA first :
         IF first.k # "some" THEN first ELSE additive_loop(first.val, first.rest))

\* the while loop of parse_additive
additive_loop(left, rest) ==
    IF rest = <<>> \/ Head(rest) \notin {"+", "-"} THEN PSome(left, rest)
    ELSE With(parse_multiplicative(Tail(rest)), LAMBDA r :
              IF r.k # "some" THEN r
              ELSE additive_loop(IF Head(rest) = "+" THEN FAdd(left, r.val)
                                 ELSE FSub(left, r.val),
                                 r.rest))

\* fn parse_multiplicative
parse_multiplicative(expr) ==
    With(parse_power(expr), LAMBDA first :
         IF first.k # "some" THEN first
         ELSE multiplicative_loop(first.val, first.rest))

\* the while loop of parse_multiplicative
multiplicative_loop(left, rest) ==
    IF \/ rest = <<>>
       \/ Head(rest) \notin {"*", "/", "%"}
       \/ starts_with(rest, <<"*","*">>)
    THEN PSome(left, rest)
    ELSE With(parse_power(Tail(rest)), LAMBDA r :
              IF r.k # "some" THEN r
              ELSE With(apply_multiplicative(Head(rest), left, r.val), LAMBDA v :
                        IF v.k # "some" THEN PNone
                        ELSE multiplicative_loop(v.val, r.rest)))

\* parse_power with the exponent read by parse_unary: no chain of powers
parse_power_single(expr) ==
    With(parse_unary(expr), LAMBDA b :
         IF b.k # "some" \/ ~starts_with(b.rest, <<"*","*">>) THEN b
         ELSE With(parse_unary(SubSeq(b.rest, 3, Len(b.rest))), LAMBDA x :
                   IF x.k # "some" THEN x
                   ELSE PSome(FPow(b.val, x.val), x.rest)))

\* fn parse_power
parse_power(expr) ==
    With(parse_unary(expr), LAMBDA b :
         IF b.k # "some" \/ ~starts_with(b.rest, <<"*","*">>) THEN b
         ELSE With(parse_power(SubSeq(b.rest, 3, Len(b.rest))), LAMBDA x :
                   IF x.k # "some" THEN x
                   ELSE PSome(FPow(b.val, x.val), x.rest)))

\* fn parse_unary
parse_unary(expr0) ==
    LET expr == trim_start(expr0)
        signed == starts_with(expr, <<"-">>) \/ starts_with(expr, <<"+">>)
    IN  With(parse_primary(IF signed THEN Tail(expr) ELSE expr), LAMBDA r :
             IF starts_with(expr, <<"-">>) /\ r.k = "some"
             THEN PSome(FNeg(r.val), r.rest) ELSE r)

\* fn parse_primary
parse_primary(expr0) ==
    LET expr == trim_start(expr0)
    IN  IF ~starts_with(expr, <<"(">>) THEN func_loop(expr)
        ELSE With(parse_additive(Tail(expr)), LAMBDA r :
                  IF r.k # "some" THEN r
                  ELSE IF starts_with(trim_start(r.rest), <<")">>)
                       THEN PSome(r.val, Tail(trim_start(r.rest)))
                  ELSE PNone)

\* the entry of the function table whose name the lower-cased input begins
\* with, 0 if there is none; no name of the table begins another
func_index(lower) ==
    IF \E i \in DOMAIN FuncNames : starts_with(lower, FuncNames[i])
    THEN CHOOSE i \in DOMAIN FuncNames : starts_with(lower, FuncNames[i])
    ELSE 0

\* lines 173-182 of parse_primary: the constants, then a number
parse_constant(expr) ==
    LET lower == to_lowercase(expr)
        after_pi == slice_from(expr, 2)
        after_e == slice_from(expr, 1)
    IN  IF starts_with(lower, <<"p","i">>)
        THEN (IF after_pi.ok THEN PSome(F64Pi, after_pi.str) ELSE PPanic)
        ELSE IF starts_with(lower, <<"e">>) /\ ~after_e.ok THEN PPanic
        ELSE IF /\ starts_with(lower, <<"e">>)
                /\ ~(after_e.str # <<>> /\ is_alphabetic(Head(after_e.str)))
             THEN PSome(F64E, after_e.str)
        ELSE parse_number(expr)

\* the for loop of parse_primary over the function table: the entries whose
\* name does not begin the input do nothing, and what follows the loop is
\* reached unless the one that does returns
func_loop(expr) ==
    With(func_entry(expr, func_index(to_lowercase(expr))), LAMBDA hit :
         IF hit.k = "next" THEN parse_constant(expr) ELSE hit)

\* the body of that loop for entry i
func_entry(expr, i) ==
    IF i = 0 THEN PNext
    ELSE LET sl == slice_from(expr, byte_len(FuncNames[i]))
             rest == trim_start(sl.str)
         IN  IF ~sl.ok THEN PPanic
             ELSE IF ~starts_with(rest, <<"(">>) THEN PNext
             ELSE With(parse_additive(Tail(rest)), LAMBDA r :
                       IF r.k # "some" THEN r
                       ELSE IF starts_with(trim_start(r.rest), <<")">>)
                            THEN PSome(apply_func(i, r.val), Tail(trim_start(r.rest)))
                       ELSE PNext)

\* fn parse_expression: the rest of the input is dropped
parse_expression(expr) ==
    With(parse_additive(expr), LAMBDA r :
         IF r.k = "some" THEN PSome(r.val, <<>>) ELSE r)

\* let expr = expr.replace(..)...: the five replacements of evaluate
normalise(expr) ==
    replace(replace(replace(replace(replace(expr,
        <<" ">>, <<>>),
        <<"x">>, <<"*">>),
        <<"U+0E23", "U+0097">>, <<"*">>),
        <<"U+0E23", "U+0E17">>, <<"/">>),
        <<"^">>, <<"*","*">>)

\* fn evaluate
evaluate(expr) == parse_expression(normalise(expr))

-----------------------------------------------------------------------------
(* Formatting of results (calculator.rs:17-21, converter.rs:122-129)       *)

I64Max == <<8191, 8191, 8191, 8191, 2047>>
I64MinMagnitude == <<0, 0, 0, 0, 2048>>

\* the four decimal digits of k < 10^4
four_digits(k) == [i \in 1..4 |-> AsciiDigits[((k \div (10 ^ (4 - i))) % 10) + 1]]

\* the decimal digits of k < 10^4 without leading zeros, none for 0
nat_digits(k) ==
    SubSeq(four_digits(k), 1 + Cardinality({i \in 1..4 : k < 10 ^ (4 - i)}), 4)

TenTo4 == BFromNat(10 ^ 4)

RECURSIVE big_to_digits(_), chunk_digits(_)
\* the decimal digits of a natural number, none for 0, four at a time
big_to_digits(n) ==
    IF BCmp(n, TenTo4) < 0 THEN nat_digits(BToNat(n))
    ELSE chunk_digits(BDivMod(n, TenTo4))

\* the digits of qr[1] * 10^4 + qr[2]
chunk_digits(qr) == big_to_digits(qr[1]) \o four_digits(BToNat(qr[2]))

\* format!("{}", n) of a natural number
display_nat(n) == IF n = <<>> THEN <<"0">> ELSE big_to_digits(n)

\* result.fract() == 0.0: false for NaN and, inf - inf being NaN, for infinities
fract_is_zero(v) == v.k = "zero" \/ (v.k = "fin" /\ v.e >= 0)

\* format!("{}", result as i64) for a result without fraction: the cast
\* saturates at the ends of i64
display_as_i64(v) ==
    IF v.k = "zero" THEN <<"0">>
    ELSE LET mag == IF BBitLen(v.m) + v.e > 64 THEN I64MinMagnitude
                    ELSE BShl(v.m, v.e)
             bound == IF v.s = 0 THEN I64Max ELSE I64MinMagnitude
         IN  (IF v.s = 0 THEN <<>> ELSE <<"-">>)
             \o display_nat(IF BCmp(mag, bound) > 0 THEN bound ELSE mag)

RECURSIVE trim_end_matches(_, _)
\* str::trim_end_matches(char)
trim_end_matches(s, c) ==
    IF s # <<>> /\ s[Len(s)] = c
    THEN trim_end_matches(SubSeq(s, 1, Len(s) - 1), c) ELSE s

\* format!("{:.prec$}", v) for a v with a fraction: the exact decimal expansion
\* rounded to prec places, ties to even; "NaN" and "inf" for those
format_fixed(v, prec) ==
    IF v.k = "nan" THEN <<"N", "a", "N">>
    ELSE IF v.k = "inf"
         THEN (IF v.s = 1 THEN <<"-">> ELSE <<>>) \o <<"i", "n", "f">>
    ELSE IF v.k = "opaque" THEN <<"?">>
    ELSE With2(-v.e, BMul(v.m, BPow(<<10>>, prec)), LAMBDA k, X :
         With(BShr(X, k), LAMBDA q :
         With(big_to_digits(IF /\ BTestBit(X, k - 1)
                               /\ (~BLowZero(X, k - 1) \/ BTestBit(q, 0))
                            THEN BAdd(q, <<1>>) ELSE q), LAMBDA N :
         With([i \in 1..(prec + 1 - Len(N)) |-> "0"] \o N, LAMBDA padded :
              (IF v.s = 1 THEN <<"-">> ELSE <<>>)
              \o SubSeq(padded, 1, Len(padded) - prec) \o <<".">>
              \o SubSeq(padded, Len(padded) - prec + 1, Len(padded))))))

\* let result_str = ... of both get_items
result_str(v, prec) ==
    IF v.k = "opaque" THEN <<"?">>
    ELSE IF fract_is_zero(v) THEN display_as_i64(v)
    ELSE trim_end_matches(trim_end_matches(format_fixed(v, prec), "0"), ".")

\* Item::new(id, ..).metadata.content = Some(result_str): the fields of an
\* Item that the result decides
Item(id, item_type, content) ==
    [id |-> id, item_type |-> item_type, content |-> content]

\* the outcome of a get_items call: the list, or a panic unwinding
Listed(items) == [panic |-> FALSE, items |-> items]
Panicked == [panic |-> TRUE, items |-> <<>>]

CalcPrecision == 2 * 3
\* Calculator::get_items
calculator_get_items(query) ==
    IF query = <<>> THEN Listed(<<>>)
    ELSE With(evaluate(query), LAMBDA r :
              IF r.k = "panic" THEN Panicked
              ELSE IF r.k = "none" THEN Listed(<<>>)
              ELSE With(result_str(r.val, CalcPrecision), LAMBDA str :
                        Listed(<<Item(<<"c","a","l","c",":">> \o str,
                                      "Calculator", str)>>)))

-----------------------------------------------------------------------------
(* Converter (converter.rs)                                                *)

\* a floating-point literal of the source: the f64 nearest to the decimal
Lit(s) == parse_f64(s).val

\* HashMap::insert of one factor under each of the names
Entries(names, factor) == {<<n, factor>> : n \in names}

length_units ==
    Entries({<<"m">>, <<"m","e","t","e","r">>, <<"m","e","t","e","r","s">>},
            Lit(<<"1",".","0">>))
    \cup Entries({<<"k","m">>, <<"k","i","l","o","m","e","t","e","r">>,
             <<"k","i","l","o","m","e","t","e","r","s">>},
            Lit(<<"1","0","0","0",".","0">>))
    \cup Entries({<<"c","m">>, <<"c","e","n","t","i","m","e","t","e","r">>,
             <<"c","e","n","t","i","m","e","t","e","r","s">>},
            Lit(<<"0",".","0","1">>))
    \cup Entries({<<"m","m">>, <<"m","i","l","l","i","m","e","t","e","r">>,
             <<"m","i","l","l","i","m","e","t","e","r","s">>},
            Lit(<<"0",".","0","0","1">>))
    \cup Entries({<<"m","i">>, <<"m","i","l","e">>, <<"m","i","l","e","s">>},
            Lit(<<"1","6","0","9",".","3","4","4">>))
    \cup Entries({<<"f","t">>, <<"f","o","o","t">>, <<"f","e","e","t">>},
            Lit(<<"0",".","3","0","4","8">>))
    \cup Entries({<<"i","n">>, <<"i","n","c","h">>, <<"i","n","c","h","e","s">>},
            Lit(<<"0",".","0","2","5","4">>))
    \cup Entries({<<"y","d">>, <<"y","a","r","d">>, <<"y","a","r","d","s">>},
            Lit(<<"0",".","9","1","4","4">>))

weight_units ==
    Entries({<<"g">>, <<"g","r","a","m">>, <<"g","r","a","m","s">>},
            Lit(<<"1",".","0">>))
    \cup Entries({<<"k","g">>, <<"k","i","l","o","g","r","a","m">>,
             <<"k","i","l","o","g","r","a","m","s">>},
            Lit(<<"1","0","0","0",".","0">>))
    \cup Entries({<<"m","g">>, <<"m","i","l","l","i","g","r","a","m">>,
             <<"m","i","l","l","i","g","r","a","m","s">>},
            Lit(<<"0",".","0","0","1">>))
    \cup Entries({<<"l","b">>, <<"l","b","s">>, <<"p","o","u","n","d">>,
             <<"p","o","u","n","d","s">>},
            Lit(<<"4","5","3",".","5","9","2">>))
    \cup Entries({<<"o","z">>, <<"o","u","n","c","e">>,
             <<"o","u","n","c","e","s">>},
            Lit(<<"2","8",".","3","4","9","5">>))
    \cup Entries({<<"t">>, <<"t","o","n">>, <<"t","o","n","s">>},
            Lit(<<"1","0","0","0","0","0","0",".","0">>))

temperature_units ==
    {<<"c">>, <<"c","e","l","s","i","u","s">>, <<"f">>,
     <<"f","a","h","r","e","n","h","e","i","t">>, <<"k">>,
     <<"k","e","l","v","i","n">>}

\* a table of time units that names the minute "m", as the metre is named
time_units_with_m ==
    Entries({<<"s">>, <<"s","e","c">>}, Lit(<<"1",".","0">>))
    \cup Entries({<<"m">>, <<"m","i","n">>}, Lit(<<"6","0",".","0">>))
    \cup Entries({<<"h">>, <<"k","m">>}, Lit(<<"3","6","0","0",".","0">>))

time_units ==
    Entries({<<"s">>, <<"s","e","c">>, <<"s","e","c","o","n","d">>,
             <<"s","e","c","o","n","d","s">>},
            Lit(<<"1",".","0">>))
    \cup Entries({<<"m","s">>,
             <<"m","i","l","l","i","s","e","c","o","n","d">>,
             <<"m","i","l","l","i","s","e","c","o","n","d","s">>},
            Lit(<<"0",".","0","0","1">>))
    \cup Entries({<<"m","i","n">>, <<"m","i","n","u","t","e">>,
             <<"m","i","n","u","t","e","s">>},
            Lit(<<"6","0",".","0">>))
    \cup Entries({<<"h">>, <<"h","r">>, <<"h","o","u","r">>,
             <<"h","o","u","r","s">>},
            Lit(<<"3","6","0","0",".","0">>))
    \cup Entries({<<"d">>, <<"d","a","y">>, <<"d","a","y","s">>},
            Lit(<<"8","6","4","0","0",".","0">>))
    \cup Entries({<<"w">>, <<"w","e","e","k">>, <<"w","e","e","k","s">>},
            Lit(<<"6","0","4","8","0","0",".","0">>))
    \cup Entries({<<"y">>, <<"y","e","a","r">>, <<"y","e","a","r","s">>},
            Lit(<<"3","1","5","3","6","0","0","0",".","0">>))

data_units ==
    Entries({<<"b">>, <<"b","y","t","e">>, <<"b","y","t","e","s">>},
            Lit(<<"1",".","0">>))
    \cup Entries({<<"k","b">>, <<"k","i","l","o","b","y","t","e">>,
             <<"k","i","l","o","b","y","t","e","s">>},
            Lit(<<"1","0","2","4",".","0">>))
    \cup Entries({<<"m","b">>, <<"m","e","g","a","b","y","t","e">>,
             <<"m","e","g","a","b","y","t","e","s">>},
            FMul(Lit(<<"1","0","2","4",".","0">>), Lit(<<"1","0","2","4",".","0">>)))
    \cup Entries({<<"g","b">>, <<"g","i","g","a","b","y","t","e">>,
             <<"g","i","g","a","b","y","t","e","s">>},
            FMul(FMul(Lit(<<"1","0","2","4",".","0">>), Lit(<<"1","0","2","4",".","0">>)), Lit(<<"1","0","2","4",".","0">>)))
    \cup Entries({<<"t","b">>, <<"t","e","r","a","b","y","t","e">>,
             <<"t","e","r","a","b","y","t","e","s">>},
            FMul(FMul(FMul(Lit(<<"1","0","2","4",".","0">>), Lit(<<"1","0","2","4",".","0">>)), Lit(<<"1","0","2","4",".","0">>)), Lit(<<"1","0","2","4",".","0">>)))

\* HashMap::get
contains_key(units, name) == \E e \in units : e[1] = name
get(units, name) == (CHOOSE e \in units : e[1] = name)[2]

Celsius == {<<"c">>, <<"c","e","l","s","i","u","s">>}
Fahrenheit == {<<"f">>, <<"f","a","h","r","e","n","h","e","i","t">>}
Kelvin == {<<"k">>, <<"k","e","l","v","i","n">>}

\* convert_temperature with the factors 5/9 and 9/5 taken for each other
convert_temperature_swapped(value, from, to) ==
    With2(Lit(<<"3","2",".","0">>), Lit(<<"2","7","3",".","1","5">>),
          LAMBDA f32, k0 :
    With2(Lit(<<"5",".","0">>), Lit(<<"9",".","0">>), LAMBDA five, nine :
    With(IF from \in Celsius THEN value
         ELSE IF from \in Fahrenheit
              THEN FDiv(FMul(FSub(value, f32), nine), five)
         ELSE FSub(value, k0), LAMBDA celsius :
         IF from \notin Celsius \cup Fahrenheit \cup Kelvin THEN PNone
         ELSE IF to \in Celsius THEN PSome(celsius, <<>>)
         ELSE IF to \in Fahrenheit
              THEN PSome(FAdd(FDiv(FMul(celsius, five), nine), f32), <<>>)
         ELSE IF to \in Kelvin THEN PSome(FAdd(celsius, k0), <<>>)
         ELSE PNone)))

\* fn convert_temperature
convert_temperature(value, from, to) ==
    With2(Lit(<<"3","2",".","0">>), Lit(<<"2","7","3",".","1","5">>),
          LAMBDA f32, k0 :
    With2(Lit(<<"5",".","0">>), Lit(<<"9",".","0">>), LAMBDA five, nine :
    With(IF from \in Celsius THEN value
         ELSE IF from \in Fahrenheit
              THEN FDiv(FMul(FSub(value, f32), five), nine)
         ELSE FSub(value, k0), LAMBDA celsius :
         IF from \notin Celsius \cup Fahrenheit \cup Kelvin THEN PNone
         ELSE IF to \in Celsius THEN PSome(celsius, <<>>)
         ELSE IF to \in Fahrenheit
              THEN PSome(FAdd(FDiv(FMul(celsius, nine), five), f32), <<>>)
         ELSE IF to \in Kelvin THEN PSome(FAdd(celsius, k0), <<>>)
         ELSE PNone)))

\* linear with the two factors taken for each other
linear_swapped(units, value, from, to) ==
    IF contains_key(units, from) /\ contains_key(units, to)
    THEN PSome(FDiv(FMul(value, get(units, to)), get(units, from)), <<>>)
    ELSE PNone

\* one "Try" block of convert: value * from_factor / to_factor if the table
\* has both names
linear(units, value, from, to) ==
    IF contains_key(units, from) /\ contains_key(units, to)
    THEN PSome(FDiv(FMul(value, get(units, from)), get(units, to)), <<>>)
    ELSE PNone

\* the first of the outcomes that is Some
or_else(first, second) == IF first.k = "some" THEN first ELSE second

\* convert with one table of all the linear units
convert_one_table(value, from, to) ==
    IF from \in temperature_units /\ to \in temperature_units
    THEN convert_temperature(value, from, to)
    ELSE linear(length_units \cup weight_units \cup time_units \cup data_units,
                value, from, to)

\* fn convert
convert(value, from, to) ==
    or_else(linear(length_units, value, from, to),
    or_else(linear(weight_units, value, from, to),
            IF from \in temperature_units /\ to \in temperature_units
            THEN convert_temperature(value, from, to)
            ELSE or_else(linear(time_units, value, from, to),
                         linear(data_units, value, from, to))))

\* the character classes \d, \s and [a-z] of the pattern
Digit == Range(AsciiDigits)
Space == WhiteSpace
LowerAz == Range(LowerAscii)

RECURSIVE run_len(_, _)
\* how many leading characters of s are in the class
run_len(s, class) ==
    IF s # <<>> /\ Head(s) \in class THEN 1 + run_len(Tail(s), class) ELSE 0

Drop(s, n) == SubSeq(s, n + 1, Len(s))

NoCaps == [ok |-> FALSE, value |-> <<>>, from |-> <<>>, to |-> <<>>]

\* a match of (\d+\.?\d*)\s*([a-z]+)\s+(?:to|in)\s+([a-z]+) that begins at the
\* first character of s.  Every repetition is greedy and what follows each can
\* only begin outside its class, so each takes its whole run
match_at(s) ==
    With(run_len(s, Digit), LAMBDA d1 :
    With(IF starts_with(Drop(s, d1), <<".">>) THEN 1 ELSE 0, LAMBDA dot :
    With(d1 + dot + run_len(Drop(s, d1 + dot), Digit), LAMBDA numLen :
    With(Drop(s, numLen + run_len(Drop(s, numLen), Space)), LAMBDA s2 :
    With(run_len(s2, LowerAz), LAMBDA u1 :
    With(run_len(Drop(s2, u1), Space), LAMBDA w1 :
    With(Drop(s2, u1 + w1), LAMBDA s4 :
    With(run_len(Drop(s4, 2), Space), LAMBDA w2 :
    With(Drop(s4, 2 + w2), LAMBDA s6 :
    With(run_len(s6, LowerAz), LAMBDA u2 :
         IF d1 = 0 \/ u1 = 0 \/ w1 = 0 THEN NoCaps
         ELSE IF ~(starts_with(s4, <<"t","o">>) \/ starts_with(s4, <<"i","n">>))
              THEN NoCaps
         ELSE IF w2 = 0 \/ u2 = 0 THEN NoCaps
         ELSE [ok |-> TRUE, value |-> SubSeq(s, 1, numLen),
               from |-> SubSeq(s2, 1, u1), to |-> SubSeq(s6, 1, u2)]))))))))))

\* captures that looks for a match at the start of the text only
captures_anchored(s) == match_at(s)

RECURSIVE captures(_)
\* Regex::captures: the match that begins leftmost
captures(s) ==
    IF s = <<>> THEN NoCaps
    ELSE With(match_at(s), LAMBDA m : IF m.ok THEN m ELSE captures(Tail(s)))

\* fn parse_conversion
parse_conversion(query) ==
    With(captures(to_lowercase(query)), LAMBDA caps :
         IF ~caps.ok THEN NoCaps
         ELSE With(parse_f64(caps.value), LAMBDA value :
                   IF value.k # "some" THEN NoCaps
                   ELSE [ok |-> TRUE, value |-> value.val,
                         from |-> caps.from, to |-> caps.to]))

ConvPrecision == 2 * 2
\* Converter::get_items
converter_get_items(query) ==
    With(parse_conversion(query), LAMBDA parsed :
         IF ~parsed.ok THEN Listed(<<>>)
         ELSE With(convert(parsed.value, parsed.from, parsed.to), LAMBDA result :
                   IF result.k # "some" THEN Listed(<<>>)
                   ELSE With(result_str(result.val, ConvPrecision), LAMBDA str :
                             Listed(<<Item(<<"c","o","n","v","e","r","t",":">> \o str,
                                           "Converter", str)>>))))

-----------------------------------------------------------------------------
(* TimerManager (timer.rs); a Duration and a DateTime are whole seconds     *)

\* a - b of two Durations, saturating at Duration::ZERO
saturating_sub(a, b) == IF a >= b THEN a - b ELSE 0

\* Local::now().signed_duration_since(at).to_std().unwrap_or(Duration::ZERO)
since(at, now) == IF now >= at THEN now - at ELSE 0

\* remaining of a timer that is taken to run whether paused or not
remaining_running(timer, now) ==
    saturating_sub(timer.duration, since(timer.started_at, now))

\* Timer::remaining; paused_remaining is <<>> for None, <<d>> for Some(d)
remaining(timer, now) ==
    IF timer.paused
    THEN (IF timer.paused_remaining = <<>> THEN 0 ELSE timer.paused_remaining[1])
    ELSE saturating_sub(timer.duration, since(timer.started_at, now))

\* Timer::is_finished
is_finished(timer, now) == ~timer.paused /\ remaining(timer, now) = 0

\* TimerManager::new; stopwatch is <<>> for None, <<t>> for Some(t)
TimerManagerNew ==
    [timers |-> <<>>, stopwatch |-> <<>>, stopwatch_paused |-> FALSE,
     stopwatch_elapsed |-> 0]

\* fn tick: self.timers.retain(|t| !t.is_finished())
tick(self, now) ==
    [self EXCEPT !.timers = SelectSeq(self.timers,
                                      LAMBDA t : ~is_finished(t, now))]

\* fn start_timer, with the id Uuid::new_v4() gives
start_timer(self, duration, id, now) ==
    [self EXCEPT !.timers =
        Append(self.timers,
               [id |-> id, duration |-> duration, started_at |-> now,
                paused |-> FALSE, paused_remaining |-> <<>>])]

\* the two branches of toggle_timer for one timer
toggled(timer, now) ==
    IF timer.paused
    THEN [timer EXCEPT !.started_at = now,
                       !.duration = IF timer.paused_remaining = <<>> THEN 0
                                    ELSE timer.paused_remaining[1],
                       !.paused = FALSE,
                       !.paused_remaining = <<>>]
    ELSE [timer EXCEPT !.paused_remaining = <<remaining(timer, now)>>,
                       !.paused = TRUE]

\* fn toggle_timer: the first timer of that id, if any
toggle_timer(self, id, now) ==
    IF \E i \in DOMAIN self.timers : self.timers[i].id = id
    THEN With(CHOOSE i \in DOMAIN self.timers :
                  /\ self.timers[i].id = id
                  /\ \A j \in 1..(i - 1) : self.timers[j].id # id,
              LAMBDA i : [self EXCEPT !.timers[i] = toggled(self.timers[i], now)])
    ELSE self

\* fn cancel_timer
cancel_timer(self, id) ==
    [self EXCEPT !.timers = SelectSeq(self.timers, LAMBDA t : t.id # id)]

\* fn start_stopwatch
start_stopwatch(self, now) ==
    [self EXCEPT !.stopwatch = <<now>>, !.stopwatch_paused = FALSE,
                 !.stopwatch_elapsed = 0]

\* fn get_stopwatch_elapsed
get_stopwatch_elapsed(self, now) ==
    IF self.stopwatch_paused THEN self.stopwatch_elapsed
    ELSE IF self.stopwatch # <<>>
         THEN self.stopwatch_elapsed + since(self.stopwatch[1], now)
    ELSE 0

\* toggle_stopwatch that pauses without taking the time
toggle_stopwatch_forgetful(self, now) ==
    IF self.stopwatch_paused
    THEN [self EXCEPT !.stopwatch = <<now>>, !.stopwatch_paused = FALSE]
    ELSE IF self.stopwatch # <<>>
         THEN [self EXCEPT !.stopwatch_paused = TRUE]
    ELSE self

\* fn toggle_stopwatch
toggle_stopwatch(self, now) ==
    IF self.stopwatch_paused
    THEN [self EXCEPT !.stopwatch = <<now>>, !.stopwatch_paused = FALSE]
    ELSE IF self.stopwatch # <<>>
         THEN [self EXCEPT !.stopwatch_elapsed = get_stopwatch_elapsed(self, now),
                           !.stopwatch_paused = TRUE]
    ELSE self

\* fn reset_stopwatch
reset_stopwatch(self) ==
    [self EXCEPT !.stopwatch = <<>>, !.stopwatch_paused = FALSE,
                 !.stopwatch_elapsed = 0]

\* str::parse::<u64> of a text of digits; <<>> for Err
parse_u64(s) ==
    IF s # <<>> /\ \A i \in DOMAIN s : is_ascii_digit(s[i])
    THEN <<NatOfDigits(s)>> ELSE <<>>

TimerColon == <<"t","i","m","e","r",":">>
TimerStart == TimerColon \o <<"s","t","a","r","t",":">>
TimerCancel == TimerColon \o <<"c","a","n","c","e","l",":">>
TimerStopwatch == TimerColon \o <<"s","t","o","p","w","a","t","c","h",":">>
StopwatchStart == TimerStopwatch \o <<"s","t","a","r","t">>
StopwatchToggle == TimerStopwatch \o <<"t","o","g","g","l","e">>
StopwatchReset == TimerStopwatch \o <<"r","e","s","e","t">>
PresetFive == TimerColon \o <<"p","r","e","s","e","t",":","5","m">>
PresetTen == TimerColon \o <<"p","r","e","s","e","t",":","1","0","m">>
PresetPomodoro == TimerColon \o <<"p","r","e","s","e","t",":","2","5","m">>

\* fn execute_action, with the id a new timer would get
execute_action(self, action_id, id, now) ==
    IF starts_with(action_id, TimerStart)
    THEN With(parse_u64(Drop(action_id, Len(TimerStart))), LAMBDA secs :
              IF secs # <<>> THEN start_timer(self, secs[1], id, now) ELSE self)
    ELSE IF starts_with(action_id, TimerCancel)
    THEN cancel_timer(self, Drop(action_id, Len(TimerCancel)))
    ELSE IF starts_with(action_id, TimerColon) /\ ~contains(action_id, <<":">>)
    THEN toggle_timer(self, Drop(action_id, Len(TimerColon)), now)
    ELSE IF action_id = StopwatchStart THEN start_stopwatch(self, now)
    ELSE IF action_id = StopwatchToggle THEN toggle_stopwatch(self, now)
    ELSE IF action_id = StopwatchReset THEN reset_stopwatch(self)
    ELSE IF action_id = PresetFive THEN start_timer(self, 5 * 60, id, now)
    ELSE IF action_id = PresetTen THEN start_timer(self, 10 * 60, id, now)
    ELSE IF action_id = PresetPomodoro THEN start_timer(self, 25 * 60, id, now)
    ELSE self

-----------------------------------------------------------------------------
(* WLaunch (window.rs)                                                     *)

RECURSIVE is_subsequence(_, _)
\* the characters of pattern occur in choice, in order
is_subsequence(pattern, choice) ==
    IF pattern = <<>> THEN TRUE
    ELSE IF choice = <<>> THEN FALSE
    ELSE IF Head(pattern) = Head(choice)
         THEN is_subsequence(Tail(pattern), Tail(choice))
    ELSE is_subsequence(pattern, Tail(choice))

\* SkimMatcherV2::fuzzy_match of the fuzzy-matcher crate, for a lower-case
\* pattern: no match unless the pattern is a subsequence of the choice, case
\* ignored; the score grows with the pattern, doubles for a contiguous match
\* and has a bonus for a match at the start of the choice; an empty pattern
\* matches with score 0
fuzzy_match(choice, pattern) ==
    With(to_lowercase(choice), LAMBDA lower :
         IF ~is_subsequence(pattern, lower) THEN [some |-> FALSE, score |-> 0]
         ELSE [some |-> TRUE,
               score |-> (IF contains(lower, pattern)
                          THEN 2 * (2 ^ 4) * Len(pattern)
                          ELSE (2 ^ 4) * Len(pattern))
                         + (IF pattern # <<>> /\ starts_with(lower, pattern)
                            THEN 1 ELSE 0)])

\* an indexed application: Item::new(..).with_description(..).with_keywords(..)
AppItem(name, description, keywords) ==
    [id |-> <<"a","p","p",":">> \o name, item_type |-> "Application",
     content |-> <<>>, name |-> name, description |-> description,
     keywords |-> keywords]

RECURSIVE best_keyword_last(_, _, _)
\* best_keyword that keeps the score of the last keyword that matches
best_keyword_last(keywords, query, best) ==
    IF keywords = <<>> THEN best
    ELSE With(fuzzy_match(Head(keywords), query), LAMBDA m :
              best_keyword_last(Tail(keywords), query,
                                IF m.some THEN m.score \div 2 ELSE best))

RECURSIVE best_keyword(_, _, _)
\* the loop of fuzzy_score over the keywords
best_keyword(keywords, query, best) ==
    IF keywords = <<>> THEN best
    ELSE With(fuzzy_match(Head(keywords), query), LAMBDA m :
              best_keyword(Tail(keywords), query,
                           IF m.some THEN Max(best, m.score \div 2) ELSE best))

\* better without the halving of the weak fields
better_unweighted(best, m, weak) ==
    IF m.some THEN Max(best, m.score) ELSE best

\* the score of one field, halved if weak, if it beats the best so far
better(best, m, weak) ==
    IF m.some THEN Max(best, IF weak THEN m.score \div 2 ELSE m.score) ELSE best

\* Item::fuzzy_score (item.rs)
fuzzy_score(item, query) ==
    best_keyword(item.keywords, query,
                 better(better(0, fuzzy_match(item.name, query), FALSE),
                        fuzzy_match(item.description, query), TRUE))

RECURSIVE insert_sorted_before_equal(_, _)
\* insert_sorted that puts a pair before the pairs of the same score
insert_sorted_before_equal(sorted, pair) ==
    IF sorted = <<>> THEN <<pair>>
    ELSE IF Head(sorted)[2] > pair[2]
         THEN <<Head(sorted)>> \o insert_sorted_before_equal(Tail(sorted), pair)
    ELSE <<pair>> \o sorted

RECURSIVE insert_sorted(_, _)
\* a pair put behind every pair whose score is not smaller: one step of the
\* stable sort_by(|a, b| b.1.cmp(&a.1))
insert_sorted(sorted, pair) ==
    IF sorted = <<>> THEN <<pair>>
    ELSE IF Head(sorted)[2] >= pair[2]
         THEN <<Head(sorted)>> \o insert_sorted(Tail(sorted), pair)
    ELSE <<pair>> \o sorted

RECURSIVE sort_by_score(_)
sort_by_score(pairs) ==
    IF pairs = <<>> THEN <<>>
    ELSE insert_sorted(sort_by_score(SubSeq(pairs, 1, Len(pairs) - 1)),
                       pairs[Len(pairs)])

\* filter_apps without the test of line 664: an empty query is scored too
filter_apps_scored(items, residual) ==
    With(to_lowercase(residual), LAMBDA query :
         With(sort_by_score(
                  SelectSeq([i \in DOMAIN items |->
                                <<items[i], fuzzy_score(items[i], query)>>],
                            LAMBDA pair : pair[2] > 0)), LAMBDA sorted :
              [i \in DOMAIN sorted |-> sorted[i][1]]))

\* the Mode::Apps arm of filter_items
filter_apps(items, residual) ==
    With(to_lowercase(residual), LAMBDA query :
         IF query = <<>> THEN items
         ELSE With(sort_by_score(
                       SelectSeq([i \in DOMAIN items |->
                                     <<items[i], fuzzy_score(items[i], query)>>],
                                 LAMBDA pair : pair[2] > 0)), LAMBDA sorted :
                   [i \in DOMAIN sorted |-> sorted[i][1]]))

\* the modes whose items a manager outside the pipeline lists
ManagerModes == Modes \ {"Apps", "Calculator", "Converter"}

\* what the manager of a mode may list for a residual: up to MaxListed items
MaxListed == 2
ManagerItem(m, i) == Item(<<"#", AsciiDigits[i + 1]>>, m, <<>>)
ManagerLists(m) == {[i \in 1..n |-> ManagerItem(m, i)] : n \in 0..MaxListed}

\* fn filter_items: the lists self.filtered_items may be set to, or a panic
filter_items(m, residual, items) ==
    IF m = "Apps" THEN {Listed(filter_apps(items, residual))}
    ELSE IF m = "Calculator" THEN {calculator_get_items(residual)}
    ELSE IF m = "Converter" THEN {converter_get_items(residual)}
    ELSE {Listed(l) : l \in ManagerLists(m)}

\* WLaunch::new
InitLauncher ==
    /\ search_query = <<>>
    /\ mode = "Apps"
    /\ mode_query = <<>>
    /\ all_items = <<>>
    /\ filtered_items = <<>>
    /\ selected_index = 0
    /\ indexing = TRUE
    /\ panicked = FALSE

\* the harnesses at rest
Pending == [k |-> "pending", val |-> F64Nan, rest |-> <<>>]
IdleRoute == route_query = <<>> /\ route_result = Routing("pending", <<>>)
IdleCalc == calc_ast = <<>> /\ calc_expr = <<>> /\ calc_result = Pending
IdleConv == conv_args = <<>> /\ conv_result = Pending
IdleScore == score_args = <<>> /\ score_result = <<>>
IdleParse == parse_parts = <<>> /\ parse_query = <<>> /\ parse_result = <<>>
IdleTimer == clock = 0 /\ timer_manager = TimerManagerNew /\ stopwatch_ran = 0
IdleClip == clipboard_manager = <<>> /\ daemon = <<>>

Init == InitLauncher /\ IdleRoute /\ IdleCalc /\ IdleConv /\ IdleScore
        /\ IdleParse
        /\ IdleTimer
        /\ IdleClip

\* SearchChanged that stays in the mode of a prefix while the new text has
\* no prefix of its own
SearchChanged_sticky(query) ==
    \E routed \in {IF mode \notin {"Apps", "Calculator", "Converter"}
                      /\ from_query(query).mode = "Apps"
                   THEN Routing(mode, trim(query)) ELSE from_query(query)} :
        /\ ~panicked
        /\ search_query' = query
        /\ mode' = routed.mode
        /\ mode_query' = routed.residual
        /\ \E out \in filter_items(routed.mode, routed.residual, all_items) :
              /\ panicked' = out.panic
              /\ filtered_items' = IF out.panic THEN filtered_items ELSE out.items
              /\ selected_index' = IF out.panic THEN selected_index ELSE 0
        /\ UNCHANGED <<all_items, indexing, routeVars, calcVars, convVars, scoreVars,
                   parseVars, timerVars, clipVars>>

\* Message::SearchChanged(query)
SearchChanged(query) ==
    \E routed \in {from_query(query)} :
        /\ ~panicked
        /\ search_query' = query
        /\ mode' = routed.mode
        /\ mode_query' = routed.residual
        /\ \E out \in filter_items(routed.mode, routed.residual, all_items) :
              /\ panicked' = out.panic
              /\ filtered_items' = IF out.panic THEN filtered_items ELSE out.items
              /\ selected_index' = IF out.panic THEN selected_index ELSE 0
        /\ UNCHANGED <<all_items, indexing, routeVars, calcVars, convVars, scoreVars,
                   parseVars, timerVars, clipVars>>

\* Message::IndexingComplete(items)
IndexingComplete(items) ==
    /\ ~panicked
    /\ indexing
    /\ indexing' = FALSE
    /\ all_items' = items
    /\ \E out \in filter_items(mode, mode_query, items) :
          /\ panicked' = out.panic
          /\ filtered_items' = IF out.panic THEN filtered_items ELSE out.items
    /\ UNCHANGED <<search_query, mode, mode_query, selected_index,
                   routeVars, calcVars, convVars, scoreVars, parseVars,
                   timerVars, clipVars>>

\* (self.selected_index + 1) % self.filtered_items.len()
next_index(index, len) == (index + 1) % len

\* previous_index that stops at the first item
previous_index_clamped(index, len) == IF index = 0 THEN 0 ELSE index - 1

\* the if of SelectPrevious: len - 1 from index 0, else index - 1
previous_index(index, len) == IF index = 0 THEN len - 1 ELSE index - 1

\* Message::SelectNext, and ArrowDown, Ctrl+J and Ctrl+N of handle_key
SelectNext ==
    /\ ~panicked
    /\ selected_index' = IF filtered_items # <<>>
                         THEN next_index(selected_index, Len(filtered_items))
                         ELSE selected_index
    /\ UNCHANGED <<search_query, mode, mode_query, all_items, filtered_items,
                   indexing, panicked, routeVars, calcVars, convVars, scoreVars,
                   parseVars, timerVars, clipVars>>

\* Message::SelectPrevious, and ArrowUp, Ctrl+K and Ctrl+P of handle_key
SelectPrevious ==
    /\ ~panicked
    /\ selected_index' = IF filtered_items = <<>> THEN selected_index
                         ELSE previous_index(selected_index, Len(filtered_items))
    /\ UNCHANGED <<search_query, mode, mode_query, all_items, filtered_items,
                   indexing, panicked, routeVars, calcVars, convVars, scoreVars,
                   parseVars, timerVars, clipVars>>

\* Message::SelectItem(index), sent by the button of a rendered item
SelectItem(index) ==
    /\ ~panicked
    /\ selected_index' = index
    /\ UNCHANGED <<search_query, mode, mode_query, all_items, filtered_items,
                   indexing, panicked, routeVars, calcVars, convVars, scoreVars,
                   parseVars, timerVars, clipVars>>

\* the modes with a message that brings a fresh list: ClipboardUpdated,
\* ProcessesUpdated, .., FilesSearchResult
UpdatedModes ==
    {"Clipboard", "Processes", "Windows", "Wifi", "Bluetooth", "Audio", "Notes",
     "Todos", "Snippets", "Ssh", "Docker", "RecentFiles", "Files"}

\* FeatureUpdated without the test of the mode
FeatureUpdated_any_mode(m, items) ==
    /\ ~panicked
    /\ filtered_items' = items
    /\ UNCHANGED <<search_query, mode, mode_query, all_items, selected_index,
                   indexing, panicked, routeVars, calcVars, convVars, scoreVars,
                   parseVars, timerVars, clipVars>>

\* Message::ClipboardUpdated(items) and the like, for the mode m
FeatureUpdated(m, items) ==
    /\ ~panicked
    /\ filtered_items' = IF mode = m THEN items ELSE filtered_items
    /\ UNCHANGED <<search_query, mode, mode_query, all_items, selected_index,
                   indexing, panicked, routeVars, calcVars, convVars, scoreVars,
                   parseVars, timerVars, clipVars>>

-----------------------------------------------------------------------------
(* The launcher: what the user types, what the indexer finds               *)

MaxPad == 1
Spaces(n) == [i \in 1..n |-> " "]
\* the texts with up to MaxPad spaces before and after
Padded(texts) == {Spaces(l) \o c \o Spaces(r) : l, r \in 0..MaxPad, c \in texts}

LauncherTexts ==
    {<<>>, <<"w","i","f","i">>, <<"w","i","f","i"," ","5","+","5">>,
     <<"W","i","F","i"," ","h","o","m","e">>,
     <<"w","i","f","i","s"," ","5","+","5">>, <<"g"," ","r","u","s","t">>,
     <<"y","t">>, <<"e"," ","s","m","i","l","e">>, <<"?"," ","w","h","y">>,
     <<"s","s","h">>, <<"5","+","5">>, <<"2","+","3","*","4">>,
     <<"(","2","+","3",")","*","4">>, <<"2","*","*","3","*","*","2">>,
     <<"5","/","0">>, <<"1","/","(","1","-","1",")">>, <<"(","1","+","2">>,
     <<"f","o","o","(","2",")">>, <<"2","+","3",")">>, <<"5","%","0">>,
     <<"0","*","*","-","1">>, <<"1","+","p","U+0130">>,
     <<"5"," ","k","m"," ","t","o"," ","m">>,
     <<"1"," ","k","m"," ","t","o"," ","m">>,
     <<"5"," ","z","z"," ","t","o"," ","m">>,
     <<"1"," ","k","m"," ","t","o"," ","g">>,
     <<"g","o"," ","t","o"," ","b","e","d">>,
     <<"m","a","d","e"," ","i","n"," ","c","h","i","n","a">>,
     <<"5"," ","k","m"," ","t","o"," ","1","0"," ","m">>,
     <<"1","0","0"," ","c"," ","t","o"," ","f">>,
     <<"3"," ","i","n"," ","t","o"," ","i","n","c","h">>,
     <<"f","i","r","e","f","o","x">>, <<"f","o","x">>, <<"w","e","b">>,
     <<"z","z","z">>, <<"w","i","f">>, <<"1"," ","t","o"," ","2">>,
     <<"3"," ","x"," ","4">>, <<"f","i">>, <<"e","s">>, <<"F","O","X">>,
     <<"c","b">>, <<"p","s"," ","x">>, <<"\t">>, <<" ","\t"," ">>}
\* those texts, and some of them between spaces
LauncherQueries ==
    LauncherTexts
    \cup Padded({<<>>, <<"w","i","f","i">>, <<"5","+","5">>, <<"f","o","x">>,
                 <<"1","+","p","U+0130">>})

MaxApps == 2
AppPool ==
    <<AppItem(<<"F","i","r","e","f","o","x">>, <<"W","e","b"," ","B","r","o","w","s","e","r">>, <<<<"i","n","t","e","r","n","e","t">>>>),
      AppItem(<<"F","i","l","e","s">>, <<>>, <<<<"f","o","l","d","e","r">>, <<"f","o","x">>>>),
      AppItem(<<"F","o","x","i","t"," ","5","+","5">>, <<"g","o"," ","t","o"," ","w","e","b">>, <<>>)>>
IndexedLists == {SubSeq(AppPool, 1, n) : n \in 1..MaxApps}

Next ==
    \/ \E query \in LauncherQueries : SearchChanged(query)
    \/ \E items \in IndexedLists : IndexingComplete(items)
    \/ SelectNext
    \/ SelectPrevious
    \/ \E index \in 0..(Len(filtered_items) - 1) : SelectItem(index)
    \/ \E m \in UpdatedModes : \E items \in ManagerLists(m) : FeatureUpdated(m, items)

Spec == Init /\ [][Next]_vars

\* C3: a query the math or the conversion heuristic fires on, for which the
\* evaluator or the resolver has no result, is not left in Calculator or
\* Converter mode with an empty list
C3_FallsThroughToApps ==
    (mode \in {"Calculator", "Converter"} /\ ~panicked) => filtered_items # <<>>

\* C5: no query makes from_query, Calculator::get_items or
\* Converter::get_items panic
C5_NeverPanics == ~panicked

\* C12: in every state of the launcher the mode and the residual are the
\* classification of the search text as it stands, whatever came before and
\* whichever message came last
C12_ModeIsClassification ==
    Routing(mode, mode_query) = from_query(search_query)

\* C12 witness: "wifi 5+5" typed over an earlier text, the index complete and
\* the selection moved since
C12_Witness ==
    /\ search_query = <<"w","i","f","i"," ","5","+","5">>
    /\ mode = "Wifi" /\ mode_query = <<"5","+","5">>
    /\ ~indexing /\ filtered_items # <<>>

\* C14: an empty search text, or one of whitespace only, is in Apps mode with
\* an empty residual, and in Apps mode with an empty residual the list is the
\* whole index in its order
C14_EmptyQueryListsAll ==
    /\ (\A i \in DOMAIN search_query : is_whitespace(search_query[i]))
           => (mode = "Apps" /\ mode_query = <<>>)
    /\ (mode = "Apps" /\ mode_query = <<>>) => filtered_items = all_items

\* C14 witness: spaces and a tab typed with two applications indexed
C14_Witness ==
    /\ search_query = <<" ","\t"," ">>
    /\ mode = "Apps" /\ mode_query = <<>>
    /\ Len(all_items) = MaxApps
    /\ filtered_items = all_items

\* the score filter_items gives an item for the residual as it stands
ScoreNow(item) == fuzzy_score(item, to_lowercase(mode_query))
\* where an item is in the index
IndexOf(item) == CHOOSE i \in DOMAIN all_items : all_items[i] = item

\* C16: in Apps mode with a residual the list holds exactly the indexed items
\* of positive score, once each, by descending score and, for equal scores,
\* in index order; the index itself is as the indexer delivered it
C16_AppsListIsRanked ==
    (mode = "Apps" /\ mode_query # <<>>) =>
        /\ Range(filtered_items) = {it \in Range(all_items) : ScoreNow(it) > 0}
        /\ Len(filtered_items) = Cardinality(Range(filtered_items))
        /\ \A j, k \in DOMAIN filtered_items :
               j < k =>
                   \/ ScoreNow(filtered_items[j]) > ScoreNow(filtered_items[k])
                   \/ /\ ScoreNow(filtered_items[j]) = ScoreNow(filtered_items[k])
                      /\ IndexOf(filtered_items[j]) < IndexOf(filtered_items[k])
        /\ all_items \in IndexedLists \cup {<<>>}

\* C16 witness: for "es" the second application of the index scores higher
\* than the first and is listed before it
C16_Witness ==
    /\ mode = "Apps" /\ mode_query = <<"e","s">>
    /\ Len(filtered_items) = 2
    /\ filtered_items[1] = all_items[2]
    /\ ScoreNow(all_items[1]) > 0

\* C24: the selection is the index of a listed item, or 0 when nothing is
\* listed
C24_SelectionInBounds ==
    IF filtered_items = <<>> THEN selected_index = 0
    ELSE selected_index < Len(filtered_items)

\* C25: a feature update for the mode the launcher is in replaces the list and
\* nothing else; one for another mode changes nothing of the launcher
C25_UpdateOnlyInOwnMode ==
    [][\A m \in UpdatedModes : \A items \in ManagerLists(m) :
           FeatureUpdated(m, items) =>
               /\ filtered_items' = IF mode = m THEN items ELSE filtered_items
               /\ UNCHANGED <<search_query, mode, mode_query, selected_index,
                              all_items>>]_vars

\* C25 witness: the indexer still running, an update has shortened the
\* clipboard list under the selection
C25_Witness ==
    /\ mode = "Clipboard" /\ indexing
    /\ selected_index = 1 /\ Len(filtered_items) = 1

RECURSIVE NextSteps(_, _, _)
\* the selection after k times SelectNext
NextSteps(k, index, len) ==
    IF k = 0 THEN index ELSE NextSteps(k - 1, next_index(index, len), len)
RECURSIVE PreviousSteps(_, _, _)
\* the selection after k times SelectPrevious
PreviousSteps(k, index, len) ==
    IF k = 0 THEN index
    ELSE PreviousSteps(k - 1, previous_index(index, len), len)

\* the rule of the two steps for a selection within a list of n items
WrapsAround(index, n) ==
    /\ next_index(index, n) = (index + 1) % n
    /\ previous_index(index, n) = (index + n - 1) % n
    /\ previous_index(next_index(index, n), n) = index
    /\ next_index(previous_index(index, n), n) = index
    /\ NextSteps(n, index, n) = index
    /\ PreviousSteps(n, index, n) = index

-----------------------------------------------------------------------------
(* Mode::from_query on its own                                             *)

\* the prefix table: every alias with its mode, and for a web search alias
\* the engine name it stands for
PrefixTable ==
    Entries({<<"w">>, <<"w","i","n","d","o","w">>,
             <<"w","i","n","d","o","w","s">>}, <<"Windows">>)
    \cup Entries({<<"p","s">>, <<"p","r","o","c">>,
                  <<"p","r","o","c","e","s","s">>}, <<"Processes">>)
    \cup Entries({<<"w","i","f","i">>, <<"n","e","t","w","o","r","k">>}, <<"Wifi">>)
    \cup Entries({<<"b","t">>, <<"b","l","u","e","t","o","o","t","h">>}, <<"Bluetooth">>)
    \cup Entries({<<"v","o","l">>, <<"v","o","l","u","m","e">>,
                  <<"a","u","d","i","o">>}, <<"Audio">>)
    \cup Entries({<<"c","b">>, <<"c","l","i","p">>,
                  <<"c","l","i","p","b","o","a","r","d">>}, <<"Clipboard">>)
    \cup Entries({<<"n","o","t","e">>, <<"n","o","t","e","s">>}, <<"Notes">>)
    \cup Entries({<<"s","n","i","p">>, <<"s","n","i","p","p","e","t">>,
                  <<"s","n","i","p","p","e","t","s">>}, <<"Snippets">>)
    \cup Entries({<<"t","o","d","o">>, <<"t","o","d","o","s">>,
                  <<"t","a","s","k">>, <<"t","a","s","k","s">>}, <<"Todos">>)
    \cup Entries({<<"s","s","h">>}, <<"Ssh">>)
    \cup Entries({<<"d","o","c","k","e","r">>,
                  <<"c","o","n","t","a","i","n","e","r">>,
                  <<"c","o","n","t","a","i","n","e","r","s">>}, <<"Docker">>)
    \cup Entries({<<"t","i","m","e","r">>,
                  <<"s","t","o","p","w","a","t","c","h">>}, <<"Timer">>)
    \cup Entries({<<"e">>, <<"e","m","o","j","i">>}, <<"Emoji">>)
    \cup Entries({<<"f">>, <<"f","i","n","d">>, <<"f","i","l","e">>,
                  <<"f","i","l","e","s">>}, <<"Files">>)
    \cup Entries({<<"r">>, <<"r","e","c","e","n","t">>}, <<"RecentFiles">>)
    \cup Entries({<<"b","w">>, <<"b","i","t","w","a","r","d","e","n">>,
                  <<"p","a","s","s">>, <<"p","a","s","s","w","o","r","d">>}, <<"Bitwarden">>)
    \cup Entries({<<"a","s","k">>, <<"a","i">>, <<"?">>}, <<"Ai">>)
    \cup Entries({<<"g">>, <<"g","o","o","g","l","e">>}, <<"WebSearch", <<"g","o","o","g","l","e">>>>)
    \cup Entries({<<"g","h">>, <<"g","i","t","h","u","b">>}, <<"WebSearch", <<"g","i","t","h","u","b">>>>)
    \cup Entries({<<"y","t">>, <<"y","o","u","t","u","b","e">>}, <<"WebSearch", <<"y","o","u","t","u","b","e">>>>)

Aliases == {e[1] : e \in PrefixTable}

\* an alias in capitals
Capitals(s) ==
    [i \in DOMAIN s |->
        IF s[i] \in Range(LowerAscii)
        THEN UpperAscii[CHOOSE j \in DOMAIN LowerAscii : LowerAscii[j] = s[i]]
        ELSE s[i]]

\* first tokens: the aliases as written and in capitals, each alias cut by a
\* character and lengthened by one, and tokens that are no alias at all
FirstTokens ==
    Aliases
    \cup {Capitals(a) : a \in Aliases}
    \cup {SubSeq(a, 1, Len(a) - 1) : a \in Aliases}
    \cup {a \o <<"s">> : a \in Aliases}
    \cup {<<"5","+","5">>, <<"5">>, <<"k","m">>, <<"(","x",")">>,
          <<"1","/","0">>, <<"W","U+0130","f","U+0130">>, <<"U+212A">>,
          <<"w","i","f","i","\t","5","+","5">>}

\* what may follow the first token
Remainders ==
    {<<>>, <<" ","5","+","5">>, <<" ","1"," ","k","m"," ","t","o"," ","m">>,
          <<" ","h","o","m","e">>, <<" "," ","h","o","m","e">>,
          <<" ","a"," ","i","n"," ","b">>, <<" ","x","-","y">>,
          <<"\t","h","o","m","e">>, <<" "," "," ","h","o","m","e">>,
          <<" ","k","m"," ","t","o"," ","1","0"," ","m">>}

RouteQueries == Padded({tok \o rem : tok \in FirstTokens, rem \in Remainders})

InitRoute ==
    /\ InitLauncher /\ IdleCalc /\ IdleConv /\ IdleScore /\ IdleParse
    /\ IdleTimer
    /\ IdleClip
    /\ route_query \in RouteQueries
    /\ route_result = Routing("pending", <<>>)

\* let (mode, mode_query) = Mode::from_query(&query)
Classify ==
    /\ route_result.mode = "pending"
    /\ route_result' = from_query(route_query)
    /\ UNCHANGED <<route_query, launcherVars, calcVars, convVars, scoreVars,
                   parseVars, timerVars, clipVars>>

SpecRoute == InitRoute /\ [][Classify]_vars

\* the query as from_query sees it, its first token and what follows the token
Trimmed == trim(route_query)
FirstSpace == IF \E i \in DOMAIN Trimmed : Trimmed[i] = " "
              THEN CHOOSE i \in DOMAIN Trimmed :
                       Trimmed[i] = " " /\ \A j \in 1..(i - 1) : Trimmed[j] # " "
              ELSE Len(Trimmed) + 1
FirstToken == to_lowercase(SubSeq(Trimmed, 1, FirstSpace - 1))
Remainder == SubSeq(Trimmed, FirstSpace + 1, Len(Trimmed))
Classified == route_result.mode # "pending"

\* the two heuristics, as the specification words them
OperatorChars == {"+", "-", "*", "/", "^", "%", "(", ")"}
MathHeuristic ==
    /\ Range(Trimmed) \cap OperatorChars # {}
    /\ Range(Trimmed) \cap Range(AsciiDigits) # {}
ConversionHeuristic ==
    \E i \in 1..(Len(Trimmed) - 3) :
        /\ Trimmed[i] = " " /\ Trimmed[i + 3] = " "
        /\ to_lowercase(SubSeq(Trimmed, i + 1, i + 2))
               \in {<<"t","o">>, <<"i","n">>}

\* C1 (as amended): a query whose lower-cased first token is an alias of the
\* prefix table is routed to the alias's mode whatever the heuristics say; the
\* residual is the remainder, behind the engine's name and a space for a web
\* search alias; a first token that is no alias is never routed by the table
C1_PrefixPrecedence ==
    Classified =>
        /\ \A e \in PrefixTable :
               FirstToken = e[1] =>
                   route_result =
                       Routing(e[2][1],
                               IF Len(e[2]) = 2 THEN e[2][2] \o <<" ">> \o Remainder
                               ELSE Remainder)
        /\ FirstToken \notin Aliases =>
               route_result.mode \in {"Apps", "Calculator", "Converter"}

\* C1 witness: "wifi 5+5", a math expression as a whole, is routed to Wifi
C1_Witness ==
    /\ Trimmed = <<"w","i","f","i"," ","5","+","5">>
    /\ MathHeuristic
    /\ route_result = Routing("Wifi", <<"5","+","5">>)

\* C1 as the claim words it: the residual is the remainder after the prefix
\* for every entry of the table
C1_Original ==
    Classified =>
        \A e \in PrefixTable :
            FirstToken = e[1] => route_result = Routing(e[2][1], Remainder)

\* C2: with no alias as first token, a query with an operator character and
\* an ASCII digit is routed to Calculator; otherwise one with " to " or " in "
\* in its lower-cased form to Converter; otherwise to Apps; the residual is
\* the whole trimmed query
C2_HeuristicRouting ==
    (Classified /\ FirstToken \notin Aliases) =>
        route_result =
            Routing(IF MathHeuristic THEN "Calculator"
                    ELSE IF ConversionHeuristic THEN "Converter"
                    ELSE "Apps",
                    Trimmed)

\* C2 witness: a query satisfying both heuristics is routed to Calculator
C2_Witness ==
    /\ FirstToken \notin Aliases
    /\ MathHeuristic /\ ConversionHeuristic
    /\ route_result = Routing("Calculator", Trimmed)

\* C13: a query that is nothing but an alias of the prefix table, a web search
\* alias included, gives the alias's mode and an empty residual
C13_PrefixAloneEmptyResidual ==
    (Classified /\ FirstSpace = Len(Trimmed) + 1) =>
        \A e \in PrefixTable :
            FirstToken = e[1] => route_result = Routing(e[2][1], <<>>)

\* the split of the specification: the first token ends at the first
\* whitespace character and the remainder starts behind the whole run
FirstWhite == IF \E i \in DOMAIN Trimmed : is_whitespace(Trimmed[i])
              THEN CHOOSE i \in DOMAIN Trimmed :
                       /\ is_whitespace(Trimmed[i])
                       /\ \A j \in 1..(i - 1) : ~is_whitespace(Trimmed[j])
              ELSE Len(Trimmed) + 1
RunToken == to_lowercase(SubSeq(Trimmed, 1, FirstWhite - 1))
RunRemainder == trim_start(SubSeq(Trimmed, FirstWhite, Len(Trimmed)))

\* C19: an alias of the prefix table followed by a run of whitespace and then
\* text is recognized, and the residual is that text without leading
\* whitespace (behind the engine's name and a space for a web search alias)
C19_SplitAtWhitespaceRun ==
    (Classified /\ FirstWhite <= Len(Trimmed)) =>
        \A e \in PrefixTable :
            RunToken = e[1] =>
                route_result =
                    Routing(e[2][1],
                            IF Len(e[2]) = 2 THEN e[2][2] \o <<" ">> \o RunRemainder
                            ELSE RunRemainder)

FiveKmToTenM == <<"5"," ","k","m"," ","t","o"," ","1","0"," ","m">>

\* C15 (as amended): "5 km to 10 m" has digits but none of +-*/^%(), so it
\* satisfies the conversion heuristic alone and is classified as Converter
C15_FiveKmIsConverter ==
    (Classified /\ Trimmed = FiveKmToTenM) =>
        /\ ~MathHeuristic /\ ConversionHeuristic
        /\ route_result = Routing("Converter", FiveKmToTenM)

\* C15 witness: the query has been classified
C15_Witness ==
    /\ route_query = FiveKmToTenM
    /\ route_result.mode = "Converter"

\* C15 as the claim words it: the query satisfies both heuristics and is
\* classified as Calculator
C15_Original ==
    (Classified /\ Trimmed = FiveKmToTenM) =>
        /\ MathHeuristic /\ ConversionHeuristic
        /\ route_result.mode = "Calculator"

-----------------------------------------------------------------------------
(* Calculator::evaluate and Calculator::get_items on typed text            *)

\* what a user may type: up to MaxTokens of these tokens in a row
MaxTokens == 3
CalcTokens ==
    {<<"5">>, <<"0">>, <<"2">>, <<".">>, <<"+">>, <<"-">>, <<"/">>, <<"%">>,
     <<"*","*">>, <<"(">>, <<")">>, <<"a","b","c">>, <<"s","q","r","t">>}

RECURSIVE TokenTexts(_)
\* the texts of exactly n tokens
TokenTexts(n) ==
    IF n = 0 THEN {<<>>}
    ELSE {t \o tok : t \in TokenTexts(n - 1), tok \in CalcTokens}

\* the expressions the specification names
CalcExamples ==
    {<<"2","+","3",")">>, <<"1",".","2",".","3">>, <<"2","+","3","a","b","c">>,
     <<"2","+","3","*","4">>, <<"5","%","0">>, <<"0","*","*","-","1">>,
     <<"s","q","r","t","(","-","1",")">>, <<"l","o","g","(","0",")">>,
     <<"l","n","(","0",")">>, <<"5","/","0">>, <<"1","0","*","*","4","0","0">>,
     <<"-","-","-","5">>, <<"2","*","-","-","5">>}

CalcInputs == CalcExamples \cup UNION {TokenTexts(n) : n \in 0..MaxTokens}

InitCalc ==
    /\ InitLauncher /\ IdleRoute /\ IdleConv /\ IdleScore /\ IdleParse
    /\ IdleTimer
    /\ IdleClip
    /\ calc_ast = <<>>
    /\ calc_expr \in CalcInputs
    /\ calc_result = Pending

\* calculator.evaluate(expr)
Evaluate ==
    /\ calc_result.k = "pending"
    /\ calc_result' = evaluate(calc_expr)
    /\ UNCHANGED <<calc_ast, calc_expr, launcherVars, routeVars, convVars, scoreVars,
                   parseVars, timerVars, clipVars>>

\* self.filtered_items = self.calculator.get_items(expr)
GetItems ==
    /\ calc_result.k \notin {"pending", "panic"}
    /\ filtered_items = <<>>
    /\ \E out \in {calculator_get_items(calc_expr)} :
          /\ ~out.panic
          /\ out.items # <<>>
          /\ filtered_items' = out.items
    /\ UNCHANGED <<search_query, mode, mode_query, all_items, selected_index,
                   indexing, panicked, routeVars, calcVars, convVars, scoreVars,
                   parseVars, timerVars, clipVars>>

SpecCalc == InitCalc /\ [][Evaluate \/ GetItems]_vars

\* what parse_additive leaves unread of the expression
Unconsumed == parse_additive(normalise(calc_expr)).rest

\* C4: evaluate returns a value only for an expression it has read to the end
C4_UnconsumedIsNone == calc_result.k = "some" => Unconsumed = <<>>

\* C8: evaluate returns a finite number or None, never NaN or an infinity,
\* and get_items shows no such result
C8_FiniteOrNone ==
    /\ calc_result.k = "some" => ~NotFinite(calc_result.val)
    /\ \A i \in DOMAIN filtered_items :
           filtered_items[i].content
               \notin {<<"N","a","N">>, <<"i","n","f">>, <<"-","i","n","f">>}

\* the signs in front of the 5 of a signed 5
Signs == SubSeq(calc_expr, 1, Len(calc_expr) - 1)
SignedFive ==
    /\ calc_expr # <<>> /\ calc_expr[Len(calc_expr)] = "5"
    /\ \A i \in DOMAIN Signs : Signs[i] \in {"-", "+"}
Minuses == Cardinality({i \in DOMAIN Signs : Signs[i] = "-"})

\* C20: any number of signs before a primary is accepted: a 5 behind signs
\* evaluates to 5 for an even number of '-' and to -5 for an odd number, and
\* "2*--5" evaluates to 10
C20_NestedUnarySigns ==
    calc_result.k # "pending" =>
        /\ SignedFive =>
               /\ calc_result.k = "some"
               /\ calc_result.val = IF Minuses % 2 = 0 THEN F64FromNat(5)
                                    ELSE FNeg(F64FromNat(5))
        /\ calc_expr = <<"2","*","-","-","5">> =>
               /\ calc_result.k = "some"
               /\ calc_result.val = F64FromNat(10)

-----------------------------------------------------------------------------
(* Calculator::evaluate on well-formed expressions                         *)

\* an expression as a tree: a number, a function of a tree, or an operator
\* between two trees
Num(k) == <<"n", <<k>>, <<>>>>
Abs(t) == <<"abs", t, <<>>>>
Bin(op, l, r) == <<op, l, r>>

BinOps == {"+", "-", "*", "/", "%", "**"}
Leaves == {0, 2, 3, 4}
MaxOps == 2

RECURSIVE Trees(_)
\* the trees with exactly n operators, each argument of abs an operator tree
Trees(n) ==
    IF n = 0 THEN {Num(k) : k \in Leaves}
    ELSE UNION {{Bin(op, l, r) : op \in BinOps,
                                 l \in Trees(i) \cup {Abs(t) : t \in Trees(i) \ Trees(0)},
                                 r \in Trees(n - 1 - i)
                                       \cup {Abs(t) : t \in Trees(n - 1 - i) \ Trees(0)}} :
                    i \in 0..(n - 1)}

Asts == UNION {Trees(n) \cup {Abs(t) : t \in Trees(n)} : n \in 0..MaxOps}

\* how tightly the operator at the root of a tree binds
Binding(t) ==
    CASE t[1] \in {"+", "-"} -> 1
      [] t[1] \in {"*", "/", "%"} -> 2
      [] t[1] = "**" -> 3
      [] OTHER -> 4

Parens(text, needed) == IF needed THEN <<"(">> \o text \o <<")">> ELSE text

RECURSIVE Render(_)
\* the tree written in the usual notation, with the parentheses the usual
\* precedence and associativity make necessary and no others
Render(t) ==
    IF t[1] = "n" THEN display_nat(BFromNat(t[2][1]))
    ELSE IF t[1] = "abs" THEN <<"a","b","s","(">> \o Render(t[2]) \o <<")">>
    ELSE Parens(Render(t[2]),
                IF t[1] = "**" THEN Binding(t[2]) <= 3
                ELSE Binding(t[2]) < Binding(t))
         \o (IF t[1] = "**" THEN <<"*","*">> ELSE <<t[1]>>)
         \o Parens(Render(t[3]),
                   IF t[1] = "**" THEN Binding(t[3]) < 3
                   ELSE Binding(t[3]) <= Binding(t))

\* the f64 operation an operator stands for
Apply(op, a, b) ==
    CASE op = "+" -> FAdd(a, b)
      [] op = "-" -> FSub(a, b)
      [] op = "*" -> FMul(a, b)
      [] op = "/" -> FDiv(a, b)
      [] op = "%" -> FRem(a, b)
      [] op = "**" -> FPow(a, b)

RECURSIVE Value(_)
\* the value of a tree in f64 arithmetic
Value(t) ==
    IF t[1] = "n" THEN F64FromNat(t[2][1])
    ELSE IF t[1] = "abs" THEN FAbs(Value(t[2]))
    ELSE Apply(t[1], Value(t[2]), Value(t[3]))

RECURSIVE HasZeroDivision(_)
\* some '/' of the tree has a right operand whose value is zero
HasZeroDivision(t) ==
    IF t[1] = "n" THEN FALSE
    ELSE IF t[1] = "abs" THEN HasZeroDivision(t[2])
    ELSE \/ HasZeroDivision(t[2])
         \/ HasZeroDivision(t[3])
         \/ t[1] = "/" /\ FIsZero(Value(t[3]))

InitExpr ==
    /\ InitLauncher /\ IdleRoute /\ IdleConv /\ IdleScore /\ IdleParse
    /\ IdleTimer
    /\ IdleClip
    /\ calc_ast \in Asts
    /\ calc_expr = Render(calc_ast)
    /\ calc_result = Pending

SpecExpr == InitExpr /\ [][Evaluate]_vars

Evaluated == calc_result.k # "pending"

\* C6: the value evaluate gives a well-formed expression without a division by
\* zero is the value of its tree: * / % before + -, ** before those and from
\* the right, parentheses first
C6_Precedence ==
    (Evaluated /\ ~HasZeroDivision(calc_ast)) =>
        calc_result = PSome(Value(calc_ast), <<>>)

\* C6 witness: 2**3**2 has been evaluated to 512, which is 2**(3**2)
C6_Witness ==
    /\ calc_expr = <<"2","*","*","3","*","*","2">>
    /\ calc_ast = Bin("**", Num(2), Bin("**", Num(3), Num(2)))
    /\ calc_result = PSome(F64FromNat(512), <<>>)

\* C7: an expression with a '/' whose right operand is zero, at the top, in
\* parentheses or in the argument of a function, evaluates to None
C7_ZeroDivisionIsNone ==
    (Evaluated /\ HasZeroDivision(calc_ast)) => calc_result.k = "none"

\* C7 witness: abs(3/(2-2)) has been evaluated, to None
C7_Witness ==
    /\ calc_expr = <<"a","b","s","(","3","/","(","2","-","2",")",")">>
    /\ HasZeroDivision(calc_ast)
    /\ calc_result.k = "none"

\* the expression with every power written '^'
Caret == replace(calc_expr, <<"*","*">>, <<"^">>)
\* the expression with its products written with the letter x, with the
\* multiplication sign, its quotients with the division sign
WithLetterX == replace(replace(Caret, <<"*">>, <<"x">>), <<"^">>, <<"*","*">>)
WithTimesSign == replace(replace(Caret, <<"*">>, <<"U+00D7">>), <<"^">>, <<"*","*">>)
WithDivisionSign == replace(calc_expr, <<"/">>, <<"U+00F7">>)
\* the expression with a space on both sides of every operator and parenthesis
Spaced ==
    replace(replace(replace(replace(replace(replace(replace(replace(Caret,
        <<"+">>, <<" ","+"," ">>), <<"-">>, <<" ","-"," ">>),
        <<"*">>, <<" ","*"," ">>), <<"/">>, <<" ","/"," ">>),
        <<"%">>, <<" ","%"," ">>), <<"(">>, <<" ","("," ">>),
        <<")">>, <<" ",")"," ">>), <<"^">>, <<" ","*","*"," ">>)

\* C21: an expression evaluates to the same result with x or the
\* multiplication sign for '*', the division sign for '/', '^' for '**', and
\* with spaces put between its tokens
C21_GlyphsAndSpacesEquivalent ==
    Evaluated =>
        /\ evaluate(WithLetterX) = calc_result
        /\ evaluate(WithTimesSign) = calc_result
        /\ evaluate(WithDivisionSign) = calc_result
        /\ evaluate(Caret) = calc_result
        /\ evaluate(Spaced) = calc_result

-----------------------------------------------------------------------------
(* Converter::convert on its own                                           *)

MaxValue == 3
ConvValues == {F64FromNat(n) : n \in 0..MaxValue} \cup {Lit(<<"2",".","5">>)}

LinearTables == {length_units, weight_units, time_units, data_units}
Dimensions == {{e[1] : e \in T} : T \in LinearTables} \cup {temperature_units}
\* every unit name of the tables, and names of no table
UnitNames ==
    UNION Dimensions \cup {<<"z","z">>, <<"K","M">>, <<>>}

\* temperatures: the freezing and boiling points, and a tenth of a degree
TempValues ==
    {F64FromNat(0), F64FromNat(32), F64FromNat(100), F64FromNat(212),
     Lit(<<"0",".","1">>), Lit(<<"2","7","3",".","1","5">>)}

InitConv ==
    /\ InitLauncher /\ IdleRoute /\ IdleCalc /\ IdleScore /\ IdleParse
    /\ IdleTimer
    /\ IdleClip
    /\ conv_args \in [value : ConvValues, from : UnitNames, to : UnitNames]
                     \cup [value : TempValues, from : temperature_units,
                           to : temperature_units]
    /\ conv_result = Pending

\* self.convert(value, &from, &to)
Convert ==
    /\ conv_result.k = "pending"
    /\ conv_result' = convert(conv_args.value, conv_args.from, conv_args.to)
    /\ UNCHANGED <<conv_args, launcherVars, routeVars, calcVars, scoreVars,
                   parseVars, timerVars, clipVars>>

SpecConv == InitConv /\ [][Convert]_vars

Converted == conv_result.k # "pending"

\* C9: convert gives a number only for two units of one dimension
C9_SameDimensionOnly ==
    conv_result.k = "some" =>
        \E D \in Dimensions : conv_args.from \in D /\ conv_args.to \in D

\* C9 witness: km to g has been tried and has no result
C9_Witness ==
    /\ conv_args.from = <<"k","m">> /\ conv_args.to = <<"g">>
    /\ conv_result.k = "none"

\* the units of a table that convert to one another without a change of scale
Synonyms(T, from, to) ==
    contains_key(T, from) /\ contains_key(T, to) /\ get(T, from) = get(T, to)

\* the table facts the claim states: base units, 1024 for data, 365 days
TableFacts ==
    /\ \A b \in {<<length_units, <<"m">>>>, <<weight_units, <<"g">>>>,
                 <<time_units, <<"s">>>>, <<data_units, <<"b">>>>} :
           get(b[1], b[2]) = F64FromNat(1)
    /\ get(data_units, <<"k","b">>) = F64FromNat(1024)
    /\ get(data_units, <<"m","b">>) = F64FromNat(1024 * 1024)
    /\ get(data_units, <<"g","b">>) = F64FromNat(1024 * 1024 * 1024)
    /\ get(data_units, <<"t","b">>)
           = FMul(F64FromNat(1024 * 1024), F64FromNat(1024 * 1024))
    /\ get(time_units, <<"y">>) = FMul(F64FromNat(365), get(time_units, <<"d">>))

\* C10 (as amended): for two units of one linear table, convert gives
\* value * factor(from) / factor(to) in f64 arithmetic, with the factors the
\* claim states
C10_LinearFactors ==
    /\ TableFacts
    /\ Converted =>
           \A T \in LinearTables :
               (contains_key(T, conv_args.from) /\ contains_key(T, conv_args.to)) =>
                   conv_result =
                       PSome(FDiv(FMul(conv_args.value, get(T, conv_args.from)),
                                  get(T, conv_args.to)), <<>>)

\* C10 witness: 1 km to m has been converted, to 1000
C10_Witness ==
    /\ conv_args = [value |-> F64FromNat(1), from |-> <<"k","m">>, to |-> <<"m">>]
    /\ conv_result = PSome(F64FromNat(1000), <<>>)

\* C10 as the claim words it: moreover a unit converted to one of its own
\* synonyms gives the value unchanged
C10_Original ==
    /\ C10_LinearFactors
    /\ Converted =>
           \A T \in LinearTables :
               Synonyms(T, conv_args.from, conv_args.to) =>
                   conv_result = PSome(conv_args.value, <<>>)

\* the two formulas of a temperature unit: to Celsius and from Celsius
ToCelsius(unit, v) ==
    IF unit \in Celsius THEN v
    ELSE IF unit \in Fahrenheit
         THEN FDiv(FMul(FSub(v, F64FromNat(32)), F64FromNat(5)), F64FromNat(9))
    ELSE FSub(v, Lit(<<"2","7","3",".","1","5">>))
FromCelsius(unit, c) ==
    IF unit \in Celsius THEN c
    ELSE IF unit \in Fahrenheit
         THEN FAdd(FDiv(FMul(c, F64FromNat(9)), F64FromNat(5)), F64FromNat(32))
    ELSE FAdd(c, Lit(<<"2","7","3",".","1","5">>))

TempArgs(v, from, to) == [value |-> v, from |-> from, to |-> to]

\* C11 (as amended): a temperature is converted to Celsius by the source
\* unit's formula and from Celsius by the target's, in f64 arithmetic; 100 c
\* is 212 f, 32 f is 0 c, 0 c is 273.15 k, and Celsius to Celsius returns the
\* value itself
C11_ThroughCelsius ==
    (Converted /\ conv_args.from \in temperature_units
               /\ conv_args.to \in temperature_units) =>
        /\ conv_result =
               PSome(FromCelsius(conv_args.to,
                                 ToCelsius(conv_args.from, conv_args.value)), <<>>)
        /\ conv_args = TempArgs(F64FromNat(100), <<"c">>, <<"f">>)
               => conv_result.val = F64FromNat(212)
        /\ conv_args = TempArgs(F64FromNat(32), <<"f">>, <<"c">>)
               => conv_result.val = F64Zero(0)
        /\ conv_args = TempArgs(F64FromNat(0), <<"c">>, <<"k">>)
               => conv_result.val = Lit(<<"2","7","3",".","1","5">>)
        /\ (conv_args.from \in Celsius /\ conv_args.to \in Celsius)
               => conv_result.val = conv_args.value

\* C11 witness: 100 c to f has been converted, to 212
C11_Witness ==
    /\ conv_args = TempArgs(F64FromNat(100), <<"c">>, <<"f">>)
    /\ conv_result = PSome(F64FromNat(212), <<>>)

\* C11 as the claim words it: moreover every unit converted to itself or to
\* its synonym gives the value unchanged
C11_Original ==
    /\ C11_ThroughCelsius
    /\ Converted =>
           \A U \in {Celsius, Fahrenheit, Kelvin} :
               (conv_args.from \in U /\ conv_args.to \in U) =>
                   conv_result = PSome(conv_args.value, <<>>)

\* what each table gives on its own for the arguments of convert
TableResults ==
    {linear(T, conv_args.value, conv_args.from, conv_args.to) :
         T \in LinearTables}
    \cup {IF conv_args.from \in temperature_units
             /\ conv_args.to \in temperature_units
          THEN convert_temperature(conv_args.value, conv_args.from, conv_args.to)
          ELSE PNone}

\* C23: the five sets of unit names are pairwise disjoint, so at most one
\* table knows both units of a pair and convert returns what that table gives,
\* whatever the order in which the tables are tried
C23_DimensionsDisjoint ==
    /\ Cardinality(Dimensions) = 5
    /\ \A D1, D2 \in Dimensions : D1 # D2 => D1 \cap D2 = {}
    /\ Converted =>
           /\ Cardinality({D \in Dimensions :
                              conv_args.from \in D /\ conv_args.to \in D}) <= 1
           /\ \A r \in TableResults : r.k = "some" => conv_result = r

\* C23 witness: min to h, known to the time table alone, has been converted
C23_Witness ==
    /\ conv_args.from = <<"m","i","n">> /\ conv_args.to = <<"h">>
    /\ conv_result.k = "some"
    /\ linear(time_units, conv_args.value, conv_args.from, conv_args.to)
           = conv_result

\* ---------------------------------------------------------------------------
\* Item::fuzzy_score on its own: two items scored for one query

ScoreNames == {<<"F","o","x">>, <<"F","i","l","e","s">>, <<"W","e","b">>}
ScoreDescriptions == {<<>>, <<"f","o","x">>, <<"R","e","d"," ","f","o","x">>}
ScoreKeywords ==
    {<<>>, <<<<"f","o","x">>>>,
     <<<<"f","o","x">>, <<"f","-","o","-","x">>>>,
     <<<<"f","-","o","-","x">>, <<"f","o","x">>>>}
ScoreItems ==
    {AppItem(n, d, k) : n \in ScoreNames, d \in ScoreDescriptions,
                        k \in ScoreKeywords}
ScoreQueries ==
    {<<"f","o","x">>, <<"f","x">>, <<"f">>, <<"x">>, <<"w","e","b">>}

InitScore ==
    /\ InitLauncher /\ IdleRoute /\ IdleCalc /\ IdleConv /\ IdleParse
    /\ IdleTimer
    /\ IdleClip
    /\ score_args \in [a : ScoreItems, b : ScoreItems, query : ScoreQueries]
    /\ score_result = <<>>

\* a.fuzzy_score(&query) and b.fuzzy_score(&query)
FuzzyScore ==
    /\ score_result = <<>>
    /\ score_result' = <<fuzzy_score(score_args.a, score_args.query),
                         fuzzy_score(score_args.b, score_args.query)>>
    /\ UNCHANGED <<score_args, launcherVars, routeVars, calcVars, convVars,
                   parseVars, timerVars, clipVars>>

SpecScore == InitScore /\ [][FuzzyScore]_vars

Scored == score_result # <<>>

\* the raw matcher scores of the name of an item, if it matches
NameRaw(item, query) ==
    With(fuzzy_match(item.name, query), LAMBDA m :
         IF m.some THEN {m.score} ELSE {})
\* the raw matcher scores of the description and the keywords that match
WeakRaw(item, query) ==
    (IF item.description # <<>> /\ fuzzy_match(item.description, query).some
     THEN {fuzzy_match(item.description, query).score} ELSE {})
    \cup {fuzzy_match(item.keywords[i], query).score :
              i \in {j \in DOMAIN item.keywords :
                         fuzzy_match(item.keywords[j], query).some}}
\* what the fields contribute: the name in full, the others halved
Contributions(item, query) ==
    NameRaw(item, query) \cup {s \div 2 : s \in WeakRaw(item, query)}
SetMax(S) == CHOOSE x \in S : \A y \in S : x >= y

\* C17: an item whose name matches with raw score s >= 1 scores strictly
\* higher than an item matched only by its description or keywords with the
\* same raw score s
C17_NameOutranksWeakFields ==
    Scored =>
        \A s \in NameRaw(score_args.a, score_args.query) :
            (/\ s >= 1
             /\ NameRaw(score_args.b, score_args.query) = {}
             /\ WeakRaw(score_args.b, score_args.query) # {}
             /\ SetMax(WeakRaw(score_args.b, score_args.query)) = s)
            => score_result[1] > score_result[2]

\* C17 witness: "Fox" against an item that has "fox" only as a keyword, for
\* the query "fox"
C17_Witness ==
    /\ Scored
    /\ score_args.query = <<"f","o","x">>
    /\ score_args.a.name = <<"F","o","x">>
    /\ score_args.b.name = <<"F","i","l","e","s">>
    /\ score_args.b.description = <<>>
    /\ score_args.b.keywords = <<<<"f","o","x">>>>
    /\ score_result[2] > 0

\* C18: fuzzy_score is the largest of the raw score of the name, half the raw
\* score of the description and half the largest raw score of a keyword,
\* halves rounded toward zero; it is never negative and is 0 exactly when no
\* field contributes a positive value
C18_ScoreIsWeightedMaximum ==
    Scored =>
        \A i \in 1..2 :
            With(Contributions(IF i = 1 THEN score_args.a ELSE score_args.b,
                               score_args.query), LAMBDA parts :
                 /\ score_result[i] = SetMax(parts \cup {0})
                 /\ score_result[i] >= 0
                 /\ (score_result[i] = 0) <=> (\A p \in parts : p <= 0))

\* C18 witness: an item matched by two keywords only, the first with the odd
\* raw score 97, scores 48
C18_Witness ==
    /\ Scored
    /\ score_args.query = <<"f","o","x">>
    /\ score_args.a.name = <<"W","e","b">>
    /\ score_args.a.description = <<>>
    /\ score_args.a.keywords = <<<<"f","o","x">>, <<"f","-","o","-","x">>>>
    /\ score_result[1] = 48

-----------------------------------------------------------------------------
(* Converter::parse_conversion on its own                                  *)

\* the pieces of a query: text before, a number (as written and as an f64),
\* a gap, the source unit, a gap, the keyword, a gap, the target unit and
\* text behind; the text before does not end in a digit or a '.', the text
\* behind does not begin with a letter, and neither has a number with a unit
ParsePrefixes == {<<>>, <<"x">>, <<"a","1"," ">>, <<"="," ">>}
ParseNumbers ==
    {<<<<"5">>, F64FromNat(5)>>, <<<<"2",".","5">>, Lit(<<"2",".","5">>)>>,
     <<<<"1","0",".">>, F64FromNat(10)>>}
ParseGaps == {<<>>, <<" ">>, <<" ","\t">>}
ParseFromUnits == {<<"k","m">>, <<"M","I">>, <<"U+212A">>}
ParseKeywords == {<<"t","o">>, <<"i","n">>, <<"I","N">>, <<"a","t">>}
ParseToUnits == {<<"m">>, <<"m","i","l","e","s">>}
ParseSuffixes == {<<>>, <<" ","n","o","w">>, <<"2">>, <<" ","t","o"," ","c","m">>}
ParseParts ==
    [before : ParsePrefixes, number : ParseNumbers, gap0 : ParseGaps,
     from : ParseFromUnits, gap1 : ParseGaps, keyword : ParseKeywords,
     gap2 : ParseGaps, to : ParseToUnits, behind : ParseSuffixes]
Written(p) ==
    p.before \o p.number[1] \o p.gap0 \o p.from \o p.gap1 \o p.keyword
    \o p.gap2 \o p.to \o p.behind

InitParse ==
    /\ InitLauncher /\ IdleRoute /\ IdleCalc /\ IdleConv /\ IdleScore
    /\ IdleTimer
    /\ IdleClip
    /\ parse_parts \in ParseParts
    /\ parse_query = Written(parse_parts)
    /\ parse_result = <<>>

\* self.parse_conversion(query)
ParseConversion ==
    /\ parse_result = <<>>
    /\ parse_result' = parse_conversion(parse_query)
    /\ UNCHANGED <<parse_parts, parse_query, launcherVars, routeVars, calcVars,
                   convVars, scoreVars, timerVars, clipVars>>

SpecParse == InitParse /\ [][ParseConversion]_vars

Parsed == parse_result # <<>>
\* the pieces make an occurrence of the grammar: whitespace on both sides of
\* 'to' or 'in', in either case
WellFormed ==
    /\ parse_parts.gap1 # <<>> /\ parse_parts.gap2 # <<>>
    /\ to_lowercase(parse_parts.keyword) \in {<<"t","o">>, <<"i","n">>}

\* the units and the keyword are written without a gap, so that they read as
\* one unit, and " to cm" follows
Glued ==
    /\ parse_parts.gap1 = <<>> /\ parse_parts.gap2 = <<>>
    /\ parse_parts.behind = <<" ","t","o"," ","c","m">>

-----------------------------------------------------------------------------
(* The TimerManager under its callers and the clock                        *)

MaxClock == 5
MaxTimers == 2
\* the ids Uuid::new_v4() hands out
TimerIds == {<<"u","1">>, <<"u","2">>}
\* the ids of the items of get_items, and one whose seconds are no number
TimerActionIds ==
    {TimerStart \o <<"1">>, TimerStart \o <<"2">>, TimerStart \o <<"x">>,
     PresetFive, PresetTen, PresetPomodoro}
    \cup {TimerCancel \o id : id \in TimerIds}
    \cup {TimerColon \o id : id \in TimerIds}
StopwatchActionIds == {StopwatchStart, StopwatchToggle, StopwatchReset}
ActionIds == TimerActionIds \cup StopwatchActionIds

IdsInUse == {timer_manager.timers[i].id : i \in DOMAIN timer_manager.timers}
\* an id not in use, as long as another timer may be started
FreshIds == IF TimerIds \subseteq IdsInUse THEN TimerIds ELSE TimerIds \ IdsInUse

InitTimer ==
    /\ InitLauncher /\ IdleRoute /\ IdleCalc /\ IdleConv /\ IdleScore
    /\ IdleClip
    /\ IdleParse /\ IdleTimer

\* self.timer_manager.execute_action(&item.id)
ExecuteAction(action_id) ==
    /\ \E id \in FreshIds :
           \E next \in {execute_action(timer_manager, action_id, id, clock)} :
               /\ Len(next.timers) <= MaxTimers
               /\ timer_manager' = next
    /\ stopwatch_ran' = IF action_id \in {StopwatchStart, StopwatchReset}
                        THEN 0 ELSE stopwatch_ran
    /\ UNCHANGED <<clock, launcherVars, routeVars, calcVars, convVars,
                   scoreVars, parseVars, clipVars>>

\* timer_manager.toggle_timer(id)
ToggleTimer(id) ==
    /\ timer_manager' = toggle_timer(timer_manager, id, clock)
    /\ UNCHANGED <<clock, stopwatch_ran, launcherVars, routeVars, calcVars,
                   convVars, scoreVars, parseVars, clipVars>>

\* Message::TimerTick
TimerTick ==
    /\ timer_manager' = tick(timer_manager, clock)
    /\ UNCHANGED <<clock, stopwatch_ran, launcherVars, routeVars, calcVars,
                   convVars, scoreVars, parseVars, clipVars>>

\* a second passes
Advance ==
    /\ clock < MaxClock
    /\ clock' = clock + 1
    /\ stopwatch_ran' = IF timer_manager.stopwatch # <<>>
                           /\ ~timer_manager.stopwatch_paused
                        THEN stopwatch_ran + 1 ELSE stopwatch_ran
    /\ UNCHANGED <<timer_manager, launcherVars, routeVars, calcVars, convVars,
                   scoreVars, parseVars, clipVars>>

\* the countdown timers
NextTimer ==
    \/ \E action_id \in TimerActionIds : ExecuteAction(action_id)
    \/ \E id \in TimerIds : ToggleTimer(id)
    \/ TimerTick
    \/ Advance

SpecTimer == InitTimer /\ [][NextTimer]_vars

\* the stopwatch
NextStopwatch ==
    \/ \E action_id \in StopwatchActionIds : ExecuteAction(action_id)
    \/ Advance

SpecStopwatch == InitTimer /\ [][NextStopwatch]_vars

\* the timer of an id in a manager (ids are in use once)
TimerOf(self, id) ==
    self.timers[CHOOSE i \in DOMAIN self.timers : self.timers[i].id = id]
IdsOf(self) == {self.timers[i].id : i \in DOMAIN self.timers}

\* C27: executing the item "timer:T" of an active timer T pauses it if it runs
\* and resumes it if it is paused; "timer:start:<secs>" adds a timer,
\* "timer:cancel:T" removes timer T and no other, and the stopwatch and preset
\* ids do what start_stopwatch, toggle_stopwatch, reset_stopwatch and
\* start_timer do
C27_ItemTogglesTimer ==
    \A id \in FreshIds :
        /\ \A i \in DOMAIN timer_manager.timers :
               /\ execute_action(timer_manager,
                                 TimerColon \o timer_manager.timers[i].id,
                                 id, clock).timers[i].paused
                      # timer_manager.timers[i].paused
               /\ IdsOf(execute_action(timer_manager,
                                       TimerCancel \o timer_manager.timers[i].id,
                                       id, clock))
                      = IdsInUse \ {timer_manager.timers[i].id}
        /\ execute_action(timer_manager, TimerStart \o <<"2">>, id, clock)
               = start_timer(timer_manager, 2, id, clock)
        /\ execute_action(timer_manager, StopwatchStart, id, clock)
               = start_stopwatch(timer_manager, clock)
        /\ execute_action(timer_manager, StopwatchToggle, id, clock)
               = toggle_stopwatch(timer_manager, clock)
        /\ execute_action(timer_manager, StopwatchReset, id, clock)
               = reset_stopwatch(timer_manager)
        /\ execute_action(timer_manager, PresetFive, id, clock)
               = start_timer(timer_manager, 5 * 60, id, clock)
        /\ execute_action(timer_manager, PresetTen, id, clock)
               = start_timer(timer_manager, 10 * 60, id, clock)
        /\ execute_action(timer_manager, PresetPomodoro, id, clock)
               = start_timer(timer_manager, 25 * 60, id, clock)

\* what the stopwatch reports
Elapsed == get_stopwatch_elapsed(timer_manager, clock)

\* C29: a paused stopwatch is a started one; toggling a stopwatch that is not
\* started changes nothing; a reset gives the stopwatch of a new manager; the
\* elapsed time is the time the stopwatch has been running, so it stands still
\* while paused and does not change when the stopwatch is paused or resumed
C29_StopwatchStateMachine ==
    /\ [](/\ timer_manager.stopwatch_paused => timer_manager.stopwatch # <<>>
          /\ timer_manager.stopwatch = <<>> =>
                 toggle_stopwatch(timer_manager, clock) = timer_manager
          /\ reset_stopwatch(timer_manager)
                 = [TimerManagerNew EXCEPT !.timers = timer_manager.timers]
          /\ Elapsed = stopwatch_ran)
    /\ [][/\ (timer_manager.stopwatch_paused /\ timer_manager'.stopwatch_paused)
                 => Elapsed' = Elapsed
          /\ ExecuteAction(StopwatchToggle) => Elapsed' = Elapsed
          /\ (ExecuteAction(StopwatchToggle) /\ timer_manager.stopwatch = <<>>)
                 => timer_manager' = timer_manager
          /\ ExecuteAction(StopwatchReset) =>
                 /\ timer_manager'.stopwatch = <<>>
                 /\ ~timer_manager'.stopwatch_paused
                 /\ Elapsed' = 0]_vars

\* C29 witness: the stopwatch ran for two seconds and has been paused since
C29_Witness ==
    /\ timer_manager.stopwatch_paused
    /\ timer_manager.stopwatch_elapsed = 2
    /\ stopwatch_ran = 2
    /\ clock - timer_manager.stopwatch[1] > 2

\* the timers a tick keeps
Kept(self, now) ==
    {t \in Range(self.timers) : t.paused \/ remaining(t, now) > 0}

\* C30: a paused timer keeps the remaining time its pause captured and is not
\* finished; a tick removes the timers that are not paused and have no time
\* left and no others; a resumed timer counts down from the captured time
C30_PausedTimerIsFrozen ==
    /\ [](\A i \in DOMAIN timer_manager.timers :
              timer_manager.timers[i].paused =>
                  /\ ~is_finished(timer_manager.timers[i], clock)
                  /\ timer_manager.timers[i].paused_remaining
                         = <<remaining(timer_manager.timers[i], clock)>>)
    /\ [][/\ \A id \in IdsInUse \cap IdsOf(timer_manager') :
                 /\ (TimerOf(timer_manager, id).paused
                     /\ TimerOf(timer_manager', id).paused)
                        => remaining(TimerOf(timer_manager', id), clock')
                               = remaining(TimerOf(timer_manager, id), clock)
                 /\ (ToggleTimer(id) /\ ~TimerOf(timer_manager, id).paused)
                        => /\ TimerOf(timer_manager', id).paused
                           /\ remaining(TimerOf(timer_manager', id), clock')
                                  = remaining(TimerOf(timer_manager, id), clock)
                 /\ (ToggleTimer(id) /\ TimerOf(timer_manager, id).paused)
                        => /\ ~TimerOf(timer_manager', id).paused
                           /\ remaining(TimerOf(timer_manager', id), clock')
                                  = TimerOf(timer_manager, id).paused_remaining[1]
          /\ TimerTick =>
                 /\ Range(timer_manager'.timers) = Kept(timer_manager, clock)
                 /\ Len(timer_manager'.timers)
                        = Cardinality(Kept(timer_manager, clock))]_vars

\* C30 witness: a timer paused with a second left is still there, not
\* finished, after the time it was started for
C30_Witness ==
    \E i \in DOMAIN timer_manager.timers :
        /\ timer_manager.timers[i].paused
        /\ timer_manager.timers[i].paused_remaining = <<1>>
        /\ clock > timer_manager.timers[i].started_at
                       + timer_manager.timers[i].duration

-----------------------------------------------------------------------------
(* ClipboardManager (clipboard.rs) and run_clipboard_daemon (main.rs)      *)

\* ClipboardEntry; the timestamp is "now" for an entry made in this run
ClipboardEntry(content) == [content |-> content, timestamp |-> "now"]

\* the entry put first, behind the removal of the entries of its content, and
\* the list cut to max_size: retain, insert(0, entry), truncate
remembered(history, entry, max_size) ==
    With(<<entry>> \o SelectSeq(history, LAMBDA e : e.content # entry.content),
         LAMBDA list : IF Len(list) > max_size
                       THEN SubSeq(list, 1, max_size) ELSE list)

\* fn copy; set_ok says whether clipboard.set_text(text) succeeds
copy(self, text, set_ok) ==
    IF self.clipboard /\ set_ok
    THEN [self EXCEPT !.history = remembered(self.history, ClipboardEntry(text),
                                             self.max_size)]
    ELSE self

\* add_to_history without the removal of the entries of the same content
add_to_history_twice(self, text) ==
    [self EXCEPT !.history =
        With(<<ClipboardEntry(text)>> \o self.history, LAMBDA list :
             IF Len(list) > self.max_size
             THEN SubSeq(list, 1, self.max_size) ELSE list)]

\* fn add_to_history
add_to_history(self, text) ==
    [self EXCEPT !.history = remembered(self.history, ClipboardEntry(text),
                                        self.max_size)]

\* fn clear_history
clear_history(self) == [self EXCEPT !.history = <<>>]

\* one iteration of the loop of run_clipboard_daemon; got is what
\* clipboard.get_text() returned, <<"Err">> or <<"Ok", content>>
daemon_loop(locals, got) ==
    IF got[1] = "Ok" /\ got[2] # <<>> /\ got[2] # locals.last_content
    THEN [locals EXCEPT !.last_content = got[2],
                        !.history = remembered(locals.history,
                                               ClipboardEntry(got[2]),
                                               locals.max_size)]
    ELSE locals

MaxSize == 2
ClipTexts == {<<"a">>, <<"b">>, <<"c">>}
\* the histories a file may hold: entries of an earlier run, no content twice
StoredEntries == {[content |-> t, timestamp |-> "then"] : t \in ClipTexts}
StoredHistories(max_size) ==
    {h \in UNION {[1..n -> StoredEntries] : n \in 0..max_size} :
         \A i, j \in DOMAIN h : h[i].content = h[j].content => i = j}

\* ClipboardManager::new and the start of run_clipboard_daemon, for a
\* configured size and a stored history within it
InitClip ==
    /\ InitLauncher /\ IdleRoute /\ IdleCalc /\ IdleConv /\ IdleScore
    /\ IdleParse /\ IdleTimer
    /\ \E max_size \in 0..MaxSize : \E stored \in StoredHistories(max_size) :
           /\ clipboard_manager \in
                  [clipboard : BOOLEAN, history : {stored},
                   max_size : {max_size}]
           /\ daemon = [last_content |-> <<>>, history |-> stored,
                        max_size |-> max_size]

\* clipboard_manager.copy(&content)
Copy(text, set_ok) ==
    /\ clipboard_manager' = copy(clipboard_manager, text, set_ok)
    /\ UNCHANGED <<daemon, launcherVars, routeVars, calcVars, convVars,
                   scoreVars, parseVars, timerVars>>

\* clipboard_manager.add_to_history(text)
AddToHistory(text) ==
    /\ clipboard_manager' = add_to_history(clipboard_manager, text)
    /\ UNCHANGED <<daemon, launcherVars, routeVars, calcVars, convVars,
                   scoreVars, parseVars, timerVars>>

\* clipboard_manager.clear_history()
ClearHistory ==
    /\ clipboard_manager' = clear_history(clipboard_manager)
    /\ UNCHANGED <<daemon, launcherVars, routeVars, calcVars, convVars,
                   scoreVars, parseVars, timerVars>>

\* the daemon wakes up and reads the clipboard
DaemonLoop(got) ==
    /\ daemon' = daemon_loop(daemon, got)
    /\ UNCHANGED <<clipboard_manager, launcherVars, routeVars, calcVars,
                   convVars, scoreVars, parseVars, timerVars>>

NextClip ==
    \/ \E text \in ClipTexts : \E set_ok \in BOOLEAN : Copy(text, set_ok)
    \/ \E text \in ClipTexts : AddToHistory(text)
    \/ ClearHistory
    \/ \E got \in {<<"Err">>, <<"Ok", <<>>>>} \cup {<<"Ok", t>> : t \in ClipTexts} :
           DaemonLoop(got)

SpecClip == InitClip /\ [][NextClip]_vars

Contents(history) == [i \in DOMAIN history |-> history[i].content]
NoDuplicates(history) ==
    \A i, j \in DOMAIN history : history[i].content = history[j].content => i = j
\* the contents of a history without one text
Without(history, text) == SelectSeq(Contents(history), LAMBDA c : c # text)

====
